---- MODULE Spec2Model ----
(***************************************************************************)
(* Retrieval-augmented answering core of AskTube.                          *)
(*                                                                         *)
(*   backend/app/services/rag_store.py    per-video FAISS index + metadata *)
(*   rag_indexer.py, rag_faiss_store.py   shared store used by the CLI     *)
(*   rag_chunker.py                       sentence chunker                 *)
(*   backend/app/services/llm_backend.py  generation backends              *)
(*   backend/app/services/chat_service.py chat_once                        *)
(*                                                                         *)
(* Text is a sequence of one-character strings.  Python's None is the      *)
(* empty sequence and a present value x is <<x>>, so that optional values  *)
(* compare with =.  Python list positions are 0-based and are kept 0-based *)
(* in every result (chunk_index); TLA+ sequences are 1-based inside.       *)
(***************************************************************************)
EXTENDS Integers, Sequences, FiniteSets, TLC

VARIABLES
    indexFile,   \* rag_store: video_id -> None | <<vectors>>   (<video_id>.index)
    metaFile,    \* rag_store: video_id -> None | <<content>>   (<video_id>.meta.json)
    last,        \* the last call made and what it returned or raised
    faissIndex,  \* rag_faiss_store: None | <<vectors>>    (settings.FAISS_INDEX_PATH)
    faissMeta,   \* rag_faiss_store: None | <<content>>    (settings.FAISS_META_PATH)
    genKind,     \* generate: the backend the call in progress runs on
    genPc,       \* generate: idle, sending, ratelimited, success or failed
    attempt,     \* GeminiBackend.generate: the loop variable
    invocations, \* provider invocations made by the call in progress
    lastResp,    \* what the provider answered to the last invocation
    lastSleep,   \* the last backoff sleep, in tenths of a second
    genResult,   \* what the finished call returned or raised
    convFile,    \* conversation_manager: path -> None | <<content>>
    manager,     \* the ConversationManager in use: None | <<its settings>>
    appended,    \* path -> every message appended to the conversation so far
    chatHistory, \* chat_repository: video_id -> messages of its chat_history document
    chatThreads, \* ConversationManager.chat: thread -> where its call is and what it holds
    embedModel,  \* rag_store._MODEL / rag_embeddings._model: None | <<instance>>
    constructed, \* how many times SentenceTransformer(...) has run in the process
    modelThreads, \* _get_model: thread -> where its call is and what it returned
    session,     \* chat_cli.chat_session: None | <<the transcript it set, whether it cleared>>
    reports,     \* the reports collection: report id -> [status, error]
    reportRuns   \* process_report: report id -> where its run is, what raised, the statuses it set

storeVars == <<indexFile, metaFile>>
sharedVars == <<faissIndex, faissMeta>>
genVars == <<genKind, genPc, attempt, invocations, lastResp, lastSleep, genResult>>
\* what the operations of each part leave alone
convVars == <<convFile, manager, appended, chatHistory>>
\* the calls in progress on threads
singVars == <<embedModel, constructed, modelThreads>>
cliVars == <<session>>
repVars == <<reports, reportRuns>>
procVars == <<chatThreads, singVars, cliVars, repVars>>
nonChatProc == <<singVars, cliVars, repVars>>
nonSingProc == <<chatThreads, cliVars, repVars>>
nonCliProc == <<chatThreads, singVars, repVars>>
nonRepProc == <<chatThreads, singVars, cliVars>>
nonStoreVars == <<sharedVars, genVars, convVars, procVars>>
nonSharedVars == <<storeVars, genVars, convVars, procVars>>
nonGenVars == <<storeVars, sharedVars, last, convVars, procVars>>
nonConvVars == <<storeVars, sharedVars, genVars, procVars>>

None == <<>>
Some(x) == <<x>>
IsNone(o) == o = <<>>
Val(o) == o[1]

Min(a, b) == IF a <= b THEN a ELSE b
Max(a, b) == IF a >= b THEN a ELSE b
Abs(a) == IF a < 0 THEN -a ELSE a

RECURSIVE SeqSum(_)
SeqSum(s) == IF s = <<>> THEN 0 ELSE Head(s) + SeqSum(Tail(s))

(***************************************************************************)
(* Bounds of the model.                                                    *)
(***************************************************************************)
\* Longest transcript text handed to build_index, in characters.
MaxTextLen == 5
\* Most time-coded segments handed to build_index.
MaxSegs == 3
\* chunk_chars of _chunk_text and _chunk_segments (800 in the source), scaled
\* so that texts of MaxTextLen characters split and segments merge.
ChunkChars == 4

Videos == {"v1", "v2"}
\* the videos the rag_store operations are exercised on
StoreVideos == {"v1"}
Chars == {"a", " "}
Whitespace == {" "}

SeqsUpTo(S, n) == UNION {[1..k -> S] : k \in 0..n}

\* transcript_text arguments: every text over Chars up to MaxTextLen.
TextInputs == SeqsUpTo(Chars, MaxTextLen)

(***************************************************************************)
(* str.strip(), " ".join(...)                                              *)
(***************************************************************************)
RECURSIVE LStrip(_)
LStrip(s) == IF s # <<>> /\ Head(s) \in Whitespace THEN LStrip(Tail(s)) ELSE s

RECURSIVE RStrip(_)
RStrip(s) ==
    IF s # <<>> /\ s[Len(s)] \in Whitespace THEN RStrip(SubSeq(s, 1, Len(s) - 1)) ELSE s

Strip(s) == RStrip(LStrip(s))

RECURSIVE JoinSpace(_)
JoinSpace(parts) ==
    IF parts = <<>> THEN <<>>
    ELSE IF Len(parts) = 1 THEN parts[1]
    ELSE parts[1] \o <<" ">> \o JoinSpace(Tail(parts))

(***************************************************************************)
(* rag_store._chunk_text                                                   *)
(***************************************************************************)
RECURSIVE ChunkTextLoop(_, _, _, _)
ChunkTextLoop(text, start_idx, chunk_chars, chunks) ==
    LET n == Len(text)
        end_idx == Min(start_idx + chunk_chars, n)
        chunk_text == Strip(SubSeq(text, start_idx + 1, end_idx))
        chunks2 == IF chunk_text # <<>>
                   THEN Append(chunks, [text |-> chunk_text, start |-> None, end |-> None])
                   ELSE chunks
    IN  IF ~(start_idx < n) THEN chunks
        ELSE IF end_idx = n THEN chunks2
        ELSE ChunkTextLoop(text, end_idx, chunk_chars, chunks2)

ChunkText(text, chunk_chars) ==
    IF text = <<>> THEN <<>> ELSE ChunkTextLoop(text, 0, chunk_chars, <<>>)

(***************************************************************************)
(* rag_store._chunk_segments.  st is the loop state: chunks, acc_text,     *)
(* acc_len, current_start, last_end.                                       *)
(***************************************************************************)
\* variant of SegStep: a flush leaves current_start as it was
SegStepStartKept(st, seg, chunk_chars) ==
    LET seg_text == Strip(seg.text)
        seg_start == seg.start
        seg_end == seg.start + seg.duration
        cs0 == IF IsNone(st.current_start) THEN Some(seg_start) ELSE st.current_start
        flush == st.acc_len + Len(seg_text) + (IF st.acc_text # <<>> THEN 1 ELSE 0) > chunk_chars
                 /\ st.acc_text # <<>>
        st1 == IF flush
               THEN [chunks |-> Append(st.chunks, [text |-> Strip(JoinSpace(st.acc_text)),
                                                   start |-> cs0, end |-> st.last_end]),
                     acc_text |-> <<>>, acc_len |-> 0,
                     current_start |-> cs0, last_end |-> st.last_end]
               ELSE [st EXCEPT !.current_start = cs0]
    IN  IF seg_text = <<>> THEN st
        ELSE [st1 EXCEPT !.acc_text = Append(st1.acc_text, seg_text),
                         \* the increment is evaluated after the append, so the
                         \* separator is counted for the first segment too
                         !.acc_len = st1.acc_len + Len(seg_text) + 1,
                         !.last_end = Some(seg_end)]

SegStep(st, seg, chunk_chars) ==
    LET seg_text == Strip(seg.text)
        seg_start == seg.start
        seg_end == seg.start + seg.duration
        cs0 == IF IsNone(st.current_start) THEN Some(seg_start) ELSE st.current_start
        flush == st.acc_len + Len(seg_text) + (IF st.acc_text # <<>> THEN 1 ELSE 0) > chunk_chars
                 /\ st.acc_text # <<>>
        st1 == IF flush
               THEN [chunks |-> Append(st.chunks, [text |-> Strip(JoinSpace(st.acc_text)),
                                                   start |-> cs0, end |-> st.last_end]),
                     acc_text |-> <<>>, acc_len |-> 0,
                     current_start |-> Some(seg_start), last_end |-> st.last_end]
               ELSE [st EXCEPT !.current_start = cs0]
    IN  IF seg_text = <<>> THEN st
        ELSE [st1 EXCEPT !.acc_text = Append(st1.acc_text, seg_text),
                         \* the increment is evaluated after the append, so the
                         \* separator is counted for the first segment too
                         !.acc_len = st1.acc_len + Len(seg_text) + 1,
                         !.last_end = Some(seg_end)]

RECURSIVE SegLoop(_, _, _)
SegLoop(st, segments, chunk_chars) ==
    IF segments = <<>> THEN st
    ELSE SegLoop(SegStep(st, Head(segments), chunk_chars), Tail(segments), chunk_chars)

ChunkSegments(segments, chunk_chars) ==
    LET st == SegLoop([chunks |-> <<>>, acc_text |-> <<>>, acc_len |-> 0,
                       current_start |-> None, last_end |-> None],
                      segments, chunk_chars)
    IN  IF st.acc_text # <<>>
        THEN Append(st.chunks, [text |-> Strip(JoinSpace(st.acc_text)),
                                start |-> st.current_start, end |-> st.last_end])
        ELSE st.chunks

(***************************************************************************)
(* Inputs of build_index: time-coded segments {text, start, duration}, as  *)
(* the transcript source supplies them: the i-th segment starts at         *)
(* SegPeriod * (i - 1); it is blank, short (one character, half a period)  *)
(* or long (ChunkChars characters, a whole period).                        *)
(***************************************************************************)
SegPeriod == 10
SegKinds == {"blank", "short", "long"}

Segment(kind, i) ==
    [text |-> IF kind = "blank" THEN <<" ">>
              ELSE IF kind = "short" THEN <<"a">>
              ELSE [j \in 1..ChunkChars |-> "a"],
     start |-> SegPeriod * (i - 1),
     duration |-> IF kind = "short" THEN SegPeriod \div 2 ELSE SegPeriod]

SegInputs ==
    {[i \in 1..Len(kinds) |-> Segment(kinds[i], i)] : kinds \in SeqsUpTo(SegKinds, MaxSegs)}

(***************************************************************************)
(* The embedding model (SentenceTransformer.encode, an external library)   *)
(* is a deterministic map from a text to a vector.  The stand-in gives     *)
(* axis-aligned integer vectors of varying length, so that _normalize is   *)
(* exact in integers and inner products of normalized vectors are -1, 0    *)
(* or 1.                                                                   *)
(***************************************************************************)
CountOf(c, s) == Cardinality({i \in 1..Len(s) : s[i] = c})

Encode(text) ==
    LET n == Len(text) + 1
        k == CountOf("a", text) % 3
    IN  IF k = 0 THEN <<0, n>> ELSE IF k = 1 THEN <<n, 0>> ELSE <<-n, 0>>

\* rag_store._normalize on one row (the 1e-12 guard only matters for a zero row)
Normalize(v) ==
    LET norm == Abs(v[1]) + Abs(v[2])
    IN  IF norm = 0 THEN v ELSE <<v[1] \div norm, v[2] \div norm>>

Dot(u, v) == u[1] * v[1] + u[2] * v[2]

(***************************************************************************)
(* faiss.IndexFlatIP.search(q, k): the k best inner products in descending *)
(* order, positions 0-based, padded with position -1 when the index holds  *)
(* fewer than k vectors.                                                   *)
(***************************************************************************)
RECURSIVE FaissTopK(_, _, _, _)
FaissTopK(vectors, q, cands, k) ==
    IF k = 0 THEN <<>>
    ELSE IF cands = {} THEN <<[idx |-> -1, score |-> -2]>> \o FaissTopK(vectors, q, cands, k - 1)
    ELSE LET best == CHOOSE i \in cands : \A j \in cands :
                         \/ Dot(vectors[i], q) > Dot(vectors[j], q)
                         \/ Dot(vectors[i], q) = Dot(vectors[j], q) /\ i <= j
         IN  <<[idx |-> best - 1, score |-> Dot(vectors[best], q)]>>
             \o FaissTopK(vectors, q, cands \ {best}, k - 1)

FaissSearch(vectors, q, k) == FaissTopK(vectors, q, 1..Len(vectors), k)

(***************************************************************************)
(* Files of rag_store: json.dumps / json.loads of the metadata.  A file's  *)
(* content either parses to the dictionary that was written or does not    *)
(* parse at all.                                                           *)
(***************************************************************************)
JsonDumps(meta) == [valid |-> TRUE, data |-> meta]
Garbage == [valid |-> FALSE, data |-> [video_id |-> "", chunks |-> <<>>]]
JsonParses(content) == content.valid
JsonLoads(content) == content.data

Raised(e) == [outcome |-> "raise", value |-> e]
Returned(x) == [outcome |-> "ok", value |-> x]

\* rag_store.has_index
HasIndex(video_id) == ~IsNone(indexFile[video_id]) /\ ~IsNone(metaFile[video_id])

SeqMap(Op(_), s) == [i \in 1..Len(s) |-> Op(s[i])]

\* the chunk objects build_index derives from its arguments
ChunkObjects(transcript_text, transcript_segments) ==
    IF transcript_segments # <<>>
    THEN ChunkSegments(transcript_segments, ChunkChars)
    ELSE ChunkText(transcript_text, ChunkChars)

EmbedChunks(chunk_objects) ==
    [i \in 1..Len(chunk_objects) |-> Normalize(Encode(chunk_objects[i].text))]

\* mutant of MetaChunks: the end time is written from the start field
MetaChunksEndFromStart(chunk_objects) ==
    [i \in 1..Len(chunk_objects) |->
        [text |-> chunk_objects[i].text, start |-> chunk_objects[i].start,
         end |-> chunk_objects[i].start]]

MetaChunks(chunk_objects) ==
    [i \in 1..Len(chunk_objects) |->
        [text |-> chunk_objects[i].text, start |-> chunk_objects[i].start,
         end |-> chunk_objects[i].end]]

(***************************************************************************)
(* rag_store.build_index                                                   *)
(***************************************************************************)
\* mutant of BuildIndex: the check for an empty chunk list is missing
BuildIndexUnchecked(video_id, transcript_text, transcript_segments) ==
    LET chunk_objects == ChunkObjects(transcript_text, transcript_segments)
        call == [op |-> "build_index", video_id |-> video_id,
                 text |-> transcript_text, segments |-> transcript_segments]
    IN  /\ indexFile' = [indexFile EXCEPT ![video_id] = Some(EmbedChunks(chunk_objects))]
        /\ metaFile' = [metaFile EXCEPT ![video_id] =
               Some(JsonDumps([video_id |-> video_id, chunks |-> MetaChunks(chunk_objects)]))]
        /\ last' = [call |-> call, res |-> Returned(None)]
        /\ UNCHANGED nonStoreVars

BuildIndex(video_id, transcript_text, transcript_segments) ==
    LET chunk_objects == ChunkObjects(transcript_text, transcript_segments)
        call == [op |-> "build_index", video_id |-> video_id,
                 text |-> transcript_text, segments |-> transcript_segments]
    IN  IF chunk_objects = <<>>
        THEN /\ last' = [call |-> call, res |-> Raised("ValueError")]
             /\ UNCHANGED <<storeVars, nonStoreVars>>
        ELSE /\ indexFile' = [indexFile EXCEPT ![video_id] = Some(EmbedChunks(chunk_objects))]
             /\ metaFile' = [metaFile EXCEPT ![video_id] =
                    Some(JsonDumps([video_id |-> video_id, chunks |-> MetaChunks(chunk_objects)]))]
             /\ last' = [call |-> call, res |-> Returned(None)]
             /\ UNCHANGED nonStoreVars

\* build_index cut short while meta_path.write_text is writing: the index file is
\* the new one and the metadata file holds a truncated, unparseable text.
BuildIndexInterrupted(video_id, transcript_text, transcript_segments) ==
    LET chunk_objects == ChunkObjects(transcript_text, transcript_segments)
        call == [op |-> "build_index", video_id |-> video_id]
    IN  /\ chunk_objects # <<>>
        /\ indexFile' = [indexFile EXCEPT ![video_id] = Some(EmbedChunks(chunk_objects))]
        /\ metaFile' = [metaFile EXCEPT ![video_id] = Some(Garbage)]
        /\ last' = [call |-> call, res |-> Raised("Interrupted")]
        /\ UNCHANGED nonStoreVars

\* build_index stopped (or observed) between faiss.write_index and
\* meta_path.write_text: the index file is the new one, the metadata file is
\* the one that was there, if any.
BuildIndexBetweenWrites(video_id, transcript_text, transcript_segments) ==
    LET chunk_objects == ChunkObjects(transcript_text, transcript_segments)
        call == [op |-> "build_index", video_id |-> video_id,
                 text |-> transcript_text, segments |-> transcript_segments]
    IN  /\ chunk_objects # <<>>
        /\ indexFile' = [indexFile EXCEPT ![video_id] = Some(EmbedChunks(chunk_objects))]
        /\ UNCHANGED metaFile
        /\ last' = [call |-> call, res |-> Raised("Interrupted")]
        /\ UNCHANGED nonStoreVars

(***************************************************************************)
(* rag_store.retrieve                                                      *)
(***************************************************************************)
RetrieveResults(raw_chunks, hits) ==
    LET keep == SelectSeq(hits, LAMBDA h : 0 <= h.idx /\ h.idx < Len(raw_chunks))
    IN  [r \in 1..Len(keep) |->
            [text |-> raw_chunks[keep[r].idx + 1].text,
             score |-> Some(keep[r].score),
             chunk_index |-> keep[r].idx,
             start_sec |-> raw_chunks[keep[r].idx + 1].start,
             end_sec |-> raw_chunks[keep[r].idx + 1].end]]

\* mutant of RetrieveCall: k is clamped one below the chunk count
RetrieveCallShortK(video_id, query, top_k) ==
    IF IsNone(indexFile[video_id]) \/ IsNone(metaFile[video_id]) THEN Returned(<<>>)
    ELSE IF ~JsonParses(Val(metaFile[video_id])) THEN Raised("JSONDecodeError")
    ELSE LET index == Val(indexFile[video_id])
             raw_chunks == JsonLoads(Val(metaFile[video_id])).chunks
             q == Normalize(Encode(query))
             k == Min(top_k, Len(raw_chunks) - 1)
         IN  IF raw_chunks = <<>> THEN Returned(<<>>)
             ELSE Returned(RetrieveResults(raw_chunks, FaissSearch(index, q, k)))

RetrieveCall(video_id, query, top_k) ==
    IF IsNone(indexFile[video_id]) \/ IsNone(metaFile[video_id]) THEN Returned(<<>>)
    ELSE IF ~JsonParses(Val(metaFile[video_id])) THEN Raised("JSONDecodeError")
    ELSE LET index == Val(indexFile[video_id])
             raw_chunks == JsonLoads(Val(metaFile[video_id])).chunks
             q == Normalize(Encode(query))
             k == Min(top_k, Len(raw_chunks))
         IN  IF raw_chunks = <<>> THEN Returned(<<>>)
             ELSE Returned(RetrieveResults(raw_chunks, FaissSearch(index, q, k)))

(***************************************************************************)
(* rag_store.retrieve_by_timestamp                                         *)
(***************************************************************************)
\* the initial best_delta of the nearest-start scan
BestDeltaInit == 1000000000

Contains(chunks, i, time_sec) ==
    /\ ~IsNone(chunks[i].start)
    /\ ~IsNone(chunks[i].end)
    /\ Val(chunks[i].start) <= time_sec
    /\ time_sec <= Val(chunks[i].end)

\* mutant of FirstContaining: the scan does not stop at the first hit
LastContaining(chunks, time_sec) ==
    LET hits == {i \in 1..Len(chunks) : Contains(chunks, i, time_sec)}
    IN  IF hits = {} THEN 0 ELSE CHOOSE i \in hits : \A j \in hits : i >= j

\* first position (1-based) whose interval contains time_sec, or 0
FirstContaining(chunks, time_sec) ==
    LET hits == {i \in 1..Len(chunks) : Contains(chunks, i, time_sec)}
    IN  IF hits = {} THEN 0 ELSE CHOOSE i \in hits : \A j \in hits : i <= j

\* the nearest-start scan: st = <<best_i, best_delta>>, best_i = 0 for None
RECURSIVE NearestScan(_, _, _, _)
NearestScan(chunks, time_sec, i, st) ==
    IF i > Len(chunks) THEN st
    ELSE IF IsNone(chunks[i].start) THEN NearestScan(chunks, time_sec, i + 1, st)
    ELSE LET delta == Abs(Val(chunks[i].start) - time_sec)
         IN  IF delta < st[2]
             THEN NearestScan(chunks, time_sec, i + 1, <<i, delta>>)
             ELSE NearestScan(chunks, time_sec, i + 1, st)

NearestByStart(chunks, time_sec) == NearestScan(chunks, time_sec, 1, <<0, BestDeltaInit>>)[1]

\* the anchor position (1-based), or 0 when the function returns [] instead
AnchorIndex(chunks, time_sec) ==
    LET c == FirstContaining(chunks, time_sec)
    IN  IF c # 0 THEN c ELSE NearestByStart(chunks, time_sec)

WindowSlice(chunks, idx, window) ==
    LET start_i == Max(0, (idx - 1) - window)
        end_i == Min(Len(chunks) - 1, (idx - 1) + window)
    IN  [n \in 1..(end_i - start_i + 1) |->
            [text |-> chunks[start_i + n].text,
             score |-> None,
             chunk_index |-> start_i + n - 1,
             start_sec |-> chunks[start_i + n].start,
             end_sec |-> chunks[start_i + n].end]]

RetrieveByTimestampCall(video_id, time_sec, window) ==
    IF IsNone(indexFile[video_id]) \/ IsNone(metaFile[video_id]) THEN Returned(<<>>)
    ELSE IF ~JsonParses(Val(metaFile[video_id])) THEN Raised("JSONDecodeError")
    ELSE LET chunks == JsonLoads(Val(metaFile[video_id])).chunks
             idx == AnchorIndex(chunks, time_sec)
         IN  IF chunks = <<>> THEN Returned(<<>>)
             ELSE IF idx = 0 THEN Returned(<<>>)
             ELSE Returned(WindowSlice(chunks, idx, window))

(***************************************************************************)
(* rag_store.get_index_stats, rag_store.get_chunks                         *)
(***************************************************************************)
GetIndexStatsCall(video_id) ==
    IF IsNone(indexFile[video_id]) \/ IsNone(metaFile[video_id])
    THEN Returned([chunk_count |-> 0])
    ELSE IF ~JsonParses(Val(metaFile[video_id])) THEN Returned([chunk_count |-> 0])
    ELSE Returned([chunk_count |-> Len(JsonLoads(Val(metaFile[video_id])).chunks)])

GetChunksCall(video_id) ==
    IF IsNone(indexFile[video_id]) \/ IsNone(metaFile[video_id]) THEN Returned(<<>>)
    ELSE IF ~JsonParses(Val(metaFile[video_id])) THEN Returned(<<>>)
    ELSE LET raw_chunks == JsonLoads(Val(metaFile[video_id])).chunks
         IN  Returned([i \in 1..Len(raw_chunks) |->
                          [text |-> raw_chunks[i].text,
                           start_sec |-> raw_chunks[i].start,
                           end_sec |-> raw_chunks[i].end,
                           chunk_index |-> i - 1]])

(***************************************************************************)
(* Arguments of the read operations.                                       *)
(***************************************************************************)
\* largest top_k asked of retrieve
MaxTopK == 4
\* largest window asked of retrieve_by_timestamp
MaxWindow == 2

QueryInputs == {<<"a">>, <<"a", "a">>, <<" ">>}
TimeInputs == {-5, 7, 10, 15, 35, 2000000000}

Retrieve(video_id, query, top_k) ==
    /\ last' = [call |-> [op |-> "retrieve", video_id |-> video_id, query |-> query,
                          top_k |-> top_k],
                res |-> RetrieveCall(video_id, query, top_k)]
    /\ UNCHANGED <<storeVars, nonStoreVars>>

RetrieveByTimestamp(video_id, time_sec, window) ==
    /\ last' = [call |-> [op |-> "retrieve_by_timestamp", video_id |-> video_id,
                          time_sec |-> time_sec, window |-> window],
                res |-> RetrieveByTimestampCall(video_id, time_sec, window)]
    /\ UNCHANGED <<storeVars, nonStoreVars>>

GetIndexStats(video_id) ==
    /\ last' = [call |-> [op |-> "get_index_stats", video_id |-> video_id],
                res |-> GetIndexStatsCall(video_id)]
    /\ UNCHANGED <<storeVars, nonStoreVars>>

GetChunks(video_id) ==
    /\ last' = [call |-> [op |-> "get_chunks", video_id |-> video_id],
                res |-> GetChunksCall(video_id)]
    /\ UNCHANGED <<storeVars, nonStoreVars>>

\* segments whose text is ""
EmptySegments == [i \in 1..2 |-> [Segment("blank", i) EXCEPT !.text = <<>>]]

BuildInputs ==
    {[text |-> t, segments |-> <<>>] : t \in TextInputs}
    \cup {[text |-> <<"a">>, segments |-> sg] : sg \in SegInputs \ {<<>>}}
    \cup {[text |-> <<>>, segments |-> EmptySegments]}

(***************************************************************************)
(* rag_chunker: approximate_token_count, split_into_sentences,             *)
(* chunk_transcript.                                                       *)
(***************************************************************************)
Terminators == {".", "!", "?"}

\* len(text.split()): the maximal runs of non-whitespace characters
WordCount(s) ==
    Cardinality({i \in 1..Len(s) :
        s[i] \notin Whitespace /\ (i = 1 \/ s[i - 1] \in Whitespace)})

\* int(words * WORD_TOKEN_RATIO), WORD_TOKEN_RATIO = 0.75
ApproximateTokenCount(s) == (3 * WordCount(s)) \div 4

\* re.split(r"(?<=[.!?])\s+", text): cut at every maximal whitespace run that
\* directly follows a terminator; cur is the part being read
RECURSIVE SplitAfterTerminator(_, _, _)
SplitAfterTerminator(text, i, cur) ==
    IF i > Len(text) THEN <<cur>>
    ELSE IF text[i] \in Whitespace /\ cur # <<>> /\ cur[Len(cur)] \in Terminators
         THEN LET rest == LStrip(SubSeq(text, i, Len(text)))
              IN  <<cur>> \o SplitAfterTerminator(rest, 1, <<>>)
         ELSE SplitAfterTerminator(text, i + 1, Append(cur, text[i]))

RECURSIVE MergeTiny(_, _)
MergeTiny(parts, merged) ==
    IF parts = <<>> THEN merged
    ELSE IF merged = <<>> THEN MergeTiny(Tail(parts), <<Head(parts)>>)
    ELSE IF Len(Head(parts)) < 2
         THEN MergeTiny(Tail(parts),
                        [merged EXCEPT ![Len(merged)] = @ \o <<" ">> \o Head(parts)])
         ELSE MergeTiny(Tail(parts), Append(merged, Head(parts)))

SplitIntoSentences(text) ==
    SelectSeq(MergeTiny(SplitAfterTerminator(Strip(text), 1, <<>>), <<>>),
              LAMBDA p : p # <<>>)

\* settings.CHUNK_TOKEN_TARGET (220) and settings.CHUNK_OVERLAP (40), scaled to
\* sentences of one to three words
ChunkTokenTarget == 2
ChunkOverlap == 1

\* the overlap tail: walk the closed chunk backwards while the budget allows;
\* st = <<tail, tail_tokens>>
RECURSIVE OverlapTail(_, _, _)
OverlapTail(cur, overlap_tokens, st) ==
    IF cur = <<>> THEN st
    ELSE LET s == cur[Len(cur)]
             t == ApproximateTokenCount(s)
         IN  IF st[2] + t > overlap_tokens THEN st
             ELSE OverlapTail(SubSeq(cur, 1, Len(cur) - 1), overlap_tokens,
                              << <<s>> \o st[1], st[2] + t >>)

ChunkRecord(chunk_id, cur, cur_tokens) ==
    [chunk_id |-> chunk_id, text |-> Strip(JoinSpace(cur)), token_estimate |-> cur_tokens]

\* variant of ChunkLoop: a chunk is closed as soon as it reaches target_tokens
RECURSIVE ChunkLoopCloseAtTarget(_, _, _, _)
ChunkLoopCloseAtTarget(sentences, target_tokens, overlap_tokens, st) ==
    IF sentences = <<>> THEN st
    ELSE LET sent == Head(sentences)
             sent_tokens == ApproximateTokenCount(sent)
             close == st.cur # <<>> /\ st.cur_tokens + sent_tokens >= target_tokens
             tail == IF overlap_tokens > 0
                     THEN OverlapTail(st.cur, overlap_tokens, << <<>>, 0 >>)
                     ELSE << <<>>, 0 >>
             st1 == IF close
                    THEN [chunks |-> Append(st.chunks,
                                            ChunkRecord(st.chunk_id, st.cur, st.cur_tokens)),
                          cur |-> tail[1], cur_tokens |-> tail[2],
                          chunk_id |-> st.chunk_id + 1]
                    ELSE st
         IN  ChunkLoopCloseAtTarget(Tail(sentences), target_tokens, overlap_tokens,
                       [st1 EXCEPT !.cur = Append(st1.cur, sent),
                                   !.cur_tokens = st1.cur_tokens + sent_tokens])

\* the loop over the sentences; st holds chunks, cur, cur_tokens, chunk_id
RECURSIVE ChunkLoop(_, _, _, _)
ChunkLoop(sentences, target_tokens, overlap_tokens, st) ==
    IF sentences = <<>> THEN st
    ELSE LET sent == Head(sentences)
             sent_tokens == ApproximateTokenCount(sent)
             close == st.cur # <<>> /\ st.cur_tokens + sent_tokens > target_tokens
             tail == IF overlap_tokens > 0
                     THEN OverlapTail(st.cur, overlap_tokens, << <<>>, 0 >>)
                     ELSE << <<>>, 0 >>
             st1 == IF close
                    THEN [chunks |-> Append(st.chunks,
                                            ChunkRecord(st.chunk_id, st.cur, st.cur_tokens)),
                          cur |-> tail[1], cur_tokens |-> tail[2],
                          chunk_id |-> st.chunk_id + 1]
                    ELSE st
         IN  ChunkLoop(Tail(sentences), target_tokens, overlap_tokens,
                       [st1 EXCEPT !.cur = Append(st1.cur, sent),
                                   !.cur_tokens = st1.cur_tokens + sent_tokens])

\* chunk_transcript; an argument of 0 (or None) falls back to the setting
ChunkTranscript(transcript, target_arg, overlap_arg) ==
    LET target_tokens == IF target_arg = 0 THEN ChunkTokenTarget ELSE target_arg
        overlap_tokens == IF overlap_arg = 0 THEN ChunkOverlap ELSE overlap_arg
        st == ChunkLoop(SplitIntoSentences(transcript), target_tokens, overlap_tokens,
                        [chunks |-> <<>>, cur |-> <<>>, cur_tokens |-> 0, chunk_id |-> 1])
    IN  IF st.cur # <<>>
        THEN Append(st.chunks, ChunkRecord(st.chunk_id, st.cur, st.cur_tokens))
        ELSE st.chunks

(***************************************************************************)
(* rag_indexer.index_transcript over rag_faiss_store.FaissVectorStore: one *)
(* index file and one metadata file shared by all videos.                  *)
(***************************************************************************)
\* hashlib.md5(text).hexdigest(): a digest that tells the modelled texts apart
CharCode(c) == IF c = "a" THEN 1 ELSE IF c = " " THEN 2 ELSE 3
HashText(text) == [i \in 1..Len(text) |-> CharCode(text[i])]

\* rag_embeddings.embed_texts (normalize_embeddings=True)
EmbedTexts(texts) == [i \in 1..Len(texts) |-> Normalize(Encode(texts[i]))]

\* FaissVectorStore.load: a missing file is an empty index / an empty list
LoadedIndex == IF IsNone(faissIndex) THEN <<>> ELSE Val(faissIndex)
LoadedMetadata == IF IsNone(faissMeta) THEN <<>> ELSE JsonLoads(Val(faissMeta))

Metadatas(video_id, chunks, transcript_hash) ==
    [i \in 1..Len(chunks) |->
        [video_id |-> video_id, chunk_id |-> chunks[i].chunk_id,
         token_estimate |-> chunks[i].token_estimate,
         transcript_hash |-> transcript_hash, text |-> chunks[i].text]]

\* mutant of AlreadyIndexed: only the first record of the store is examined
AlreadyIndexedFirstOnly(metadata, video_id, transcript_hash) ==
    /\ metadata # <<>>
    /\ metadata[1].video_id = video_id
    /\ metadata[1].transcript_hash = transcript_hash

AlreadyIndexed(metadata, video_id, transcript_hash) ==
    \E i \in 1..Len(metadata) :
        metadata[i].video_id = video_id /\ metadata[i].transcript_hash = transcript_hash

\* most chunk records the shared store is let grow to
MaxStoreChunks == 4

IndexTranscript(video_id, transcript_text, force_reindex, use_rag) ==
    LET call == [op |-> "index_transcript", video_id |-> video_id,
                 text |-> transcript_text, force_reindex |-> force_reindex]
        transcript_hash == HashText(transcript_text)
        reset == force_reindex /\ LoadedMetadata # <<>>
        index0 == IF reset THEN <<>> ELSE LoadedIndex
        metadata0 == IF reset THEN <<>> ELSE LoadedMetadata
        chunks == ChunkTranscript(transcript_text, ChunkTokenTarget, ChunkOverlap)
        vectors == EmbedTexts([i \in 1..Len(chunks) |-> chunks[i].text])
    IN  /\ Len(metadata0) + Len(chunks) <= MaxStoreChunks
        /\ UNCHANGED nonSharedVars
        /\ IF ~use_rag
           THEN /\ last' = [call |-> call,
                            res |-> Returned([skipped |-> TRUE, reason |-> "RAG disabled"])]
                /\ UNCHANGED sharedVars
           ELSE IF ~force_reindex /\ AlreadyIndexed(LoadedMetadata, video_id, transcript_hash)
           THEN /\ last' = [call |-> call,
                            res |-> Returned([skipped |-> TRUE, reason |-> "already indexed"])]
                /\ UNCHANGED sharedVars
           ELSE IF vectors = <<>>
           \* FaissVectorStore.add: an empty batch is not a 2-dimensional array
           THEN /\ last' = [call |-> call, res |-> Raised("ValueError")]
                /\ UNCHANGED sharedVars
           ELSE /\ faissIndex' = Some(index0 \o vectors)
                /\ faissMeta' = Some(JsonDumps(metadata0
                                     \o Metadatas(video_id, chunks, transcript_hash)))
                /\ last' = [call |-> call,
                            res |-> Returned([indexed |-> TRUE, chunks |-> Len(chunks)])]

\* transcripts handed to index_transcript, written as lists of sentences
Sentence(words) == JoinSpace([i \in 1..words |-> <<"a">>]) \o <<".">>

IndexerTranscripts ==
    { <<>>,
      Sentence(2),
      JoinSpace(<<Sentence(3), Sentence(2)>>),
      JoinSpace(<<Sentence(2), Sentence(2), Sentence(2)>>) }

(***************************************************************************)
(* llm_backend: one generate call as a state machine.  genPc is the        *)
(* position of the call: "sending" is the head of the retry loop (the      *)
(* single invocation for Ollama), "ratelimited" the backoff sleep.         *)
(***************************************************************************)
\* retries of GeminiBackend.generate
Retries == 6
\* backoff = 2.0 s and the jitter random.uniform(0, 0.4) s, in tenths of a second
BackoffTenths == 20
JitterTenths == 4

RECURSIVE Pow2(_)
Pow2(n) == IF n = 0 THEN 1 ELSE 2 * Pow2(n - 1)

\* An exception is its class and the words of str(e).
Error(type, words) == [type |-> type, msg |-> words]

\* "429" in msg or "Resource exhausted" in msg
IsRateLimitSignal(e) ==
    \E i \in 1..Len(e.msg) : e.msg[i] = "429" \/ e.msg[i] = "Resource exhausted"

\* what the provider can answer to one invocation
NoResponse == [kind |-> "none", content |-> <<>>, error |-> Error("", <<>>)]
Content(text) == [kind |-> "content", content |-> text, error |-> Error("", <<>>)]
Fault(e) == [kind |-> "error", content |-> <<>>, error |-> e]
NullResult == [kind |-> "null", content |-> <<>>, error |-> Error("", <<>>)]

\* a text is the sequence of its pieces, "" is <<>>
Contents == {<<>>, <<"answer">>}

GeminiFaults ==
    { Error("ResourceExhausted", <<"429", "quota exceeded">>),
      Error("GoogleAPIError", <<"Resource exhausted">>),
      Error("InternalServerError", <<"500", "internal error">>) }

OllamaFaults == { Error("ConnectionError", <<"connection refused">>) }

GeminiResponses == {Content(c) : c \in Contents} \cup {Fault(e) : e \in GeminiFaults}
\* ollama.generate returns a result with a response, a result without one
\* (None, or 'response' missing) or raises
OllamaResponses ==
    {Content(c) : c \in Contents} \cup {NullResult} \cup {Fault(e) : e \in OllamaFaults}

ExceededRetries == Error("RuntimeError", <<"Exceeded retry attempts for Gemini">>)
OllamaNoResponse == Error("RuntimeError", <<"Ollama returned no response">>)

\* the caller enters generate
GenCall(kind) ==
    /\ genPc = "idle"
    /\ genKind' = kind
    /\ genPc' = "sending"
    /\ attempt' = 0
    /\ invocations' = 0
    /\ lastResp' = NoResponse
    /\ lastSleep' = 0
    /\ genResult' = Returned(None)
    /\ UNCHANGED nonGenVars

\* OllamaBackend.generate: one invocation, no retry
OllamaSend(resp) ==
    /\ genKind = "ollama"
    /\ genPc = "sending"
    /\ invocations' = invocations + 1
    /\ lastResp' = resp
    /\ IF resp.kind = "content"
       THEN genPc' = "success" /\ genResult' = Returned(<<resp.content>>)
       ELSE IF resp.kind = "null"
       THEN genPc' = "failed" /\ genResult' = Raised(OllamaNoResponse)
       ELSE genPc' = "failed" /\ genResult' = Raised(resp.error)
    /\ UNCHANGED <<genKind, attempt, lastSleep, nonGenVars>>

\* variant: every provider error is slept on and retried
GeminiSendRetryAny(resp, jitter) ==
    /\ genKind = "gemini"
    /\ genPc = "sending"
    /\ attempt < Retries
    /\ invocations' = invocations + 1
    /\ lastResp' = resp
    /\ IF resp.kind = "content"
       THEN /\ genPc' = "success"
            /\ genResult' = Returned(<<resp.content>>)
            /\ UNCHANGED lastSleep
       ELSE /\ genPc' = "ratelimited"
            /\ lastSleep' = BackoffTenths * Pow2(attempt) + jitter
            /\ UNCHANGED genResult
    /\ UNCHANGED <<genKind, attempt, nonGenVars>>

\* GeminiBackend.generate, loop body: llm.invoke and the except clause
GeminiSend(resp, jitter) ==
    /\ genKind = "gemini"
    /\ genPc = "sending"
    /\ attempt < Retries
    /\ invocations' = invocations + 1
    /\ lastResp' = resp
    /\ IF resp.kind = "content"
       THEN /\ genPc' = "success"
            /\ genResult' = Returned(<<resp.content>>)
            /\ UNCHANGED lastSleep
       ELSE IF IsRateLimitSignal(resp.error)
       THEN /\ genPc' = "ratelimited"
            /\ lastSleep' = BackoffTenths * Pow2(attempt) + jitter
            /\ UNCHANGED genResult
       ELSE /\ genPc' = "failed"
            /\ genResult' = Raised(resp.error)
            /\ UNCHANGED lastSleep
    /\ UNCHANGED <<genKind, attempt, nonGenVars>>

\* time.sleep returns; continue
GeminiBackoff ==
    /\ genKind = "gemini"
    /\ genPc = "ratelimited"
    /\ attempt' = attempt + 1
    /\ genPc' = "sending"
    /\ UNCHANGED <<genKind, invocations, lastResp, lastSleep, genResult, nonGenVars>>

\* variant: when the loop ends the last provider error is raised again
GeminiExhaustedReraise ==
    /\ genKind = "gemini"
    /\ genPc = "sending"
    /\ attempt >= Retries
    /\ genPc' = "failed"
    /\ genResult' = Raised(lastResp.error)
    /\ UNCHANGED <<genKind, attempt, invocations, lastResp, lastSleep, nonGenVars>>

\* the loop ends: raise RuntimeError("Exceeded retry attempts for Gemini")
GeminiExhausted ==
    /\ genKind = "gemini"
    /\ genPc = "sending"
    /\ attempt >= Retries
    /\ genPc' = "failed"
    /\ genResult' = Raised(ExceededRetries)
    /\ UNCHANGED <<genKind, attempt, invocations, lastResp, lastSleep, nonGenVars>>

\* the caller has the result; the next call starts from idle
GenReturn ==
    /\ genPc \in {"success", "failed"}
    /\ genPc' = "idle"
    /\ UNCHANGED <<genKind, attempt, invocations, lastResp, lastSleep, genResult, nonGenVars>>

(***************************************************************************)
(* llm_backend: get_backend, is_available, auto_select_backend.  env tells *)
(* for each kind whether its constructor succeeds (the package imports,    *)
(* the service answers, the API key is set) and what is_available says of  *)
(* the instance afterwards.                                                *)
(***************************************************************************)
Kinds == {"ollama", "gemini"}

Envs == [Kinds -> [construct : BOOLEAN, available : BOOLEAN]]

ModelInputs == {None, Some("m")}

\* str.lower() on the backend names the requests carry
Lower(s) == IF s = "Gemini" THEN "gemini" ELSE IF s = "OLLAMA" THEN "ollama" ELSE s

DefaultModel(kind) == IF kind = "ollama" THEN "qwen2.5:7b" ELSE "gemini-2.0-flash-lite"

\* OllamaBackend(model), GeminiBackend(model, api_key)
Construct(kind, model, env) ==
    IF env[kind].construct
    THEN Returned([kind |-> kind, model |-> IF IsNone(model) THEN DefaultModel(kind) ELSE Val(model)])
    ELSE Raised(Error("RuntimeError", <<kind, "not usable">>))

\* backend_type is "" for None
GetBackend(backend_type, model, env) ==
    LET bt == Lower(backend_type)
    IN  IF bt = "ollama" \/ bt = "" THEN Construct("ollama", model, env)
        ELSE IF bt = "gemini" THEN Construct("gemini", model, env)
        ELSE Raised(Error("ValueError", <<"Unknown backend:", backend_type>>))

IsAvailable(inst, env) == env[inst.kind].available

NoBackendAvailable == Error("RuntimeError", <<"No LLM backend available (Ollama/Gemini)">>)

\* variant of Order: the alternative is tried first
OrderAlternativeFirst(preferred) ==
    <<IF preferred = "ollama" THEN "gemini" ELSE "ollama", preferred>>

Order(preferred) == <<preferred, IF preferred = "ollama" THEN "gemini" ELSE "ollama">>

RECURSIVE AutoSelectLoop(_, _, _)
AutoSelectLoop(order, model, env) ==
    IF order = <<>> THEN Raised(NoBackendAvailable)
    ELSE LET inst == GetBackend(Head(order), model, env)
         IN  IF inst.outcome = "ok" /\ IsAvailable(inst.value, env) THEN inst
             ELSE AutoSelectLoop(Tail(order), model, env)

AutoSelect(preferred, model, env) == AutoSelectLoop(Order(preferred), model, env)

AutoSelectBackend(preferred, model, env) ==
    /\ last' = [call |-> [op |-> "auto_select_backend", preferred |-> preferred,
                          model |-> model, env |-> env],
                res |-> AutoSelect(preferred, model, env)]
    /\ UNCHANGED <<storeVars, nonStoreVars>>

\* what a generate call on a backend of this kind can end with
GenerateOutcomes(kind) ==
    IF kind = "ollama"
    THEN {Returned(Some(c)) : c \in Contents}
         \cup {Raised(OllamaNoResponse)} \cup {Raised(e) : e \in OllamaFaults}
    ELSE {Returned(Some(c)) : c \in Contents}
         \cup {Raised(ExceededRetries)}
         \cup {Raised(e) : e \in {f \in GeminiFaults : ~IsRateLimitSignal(f)}}

(***************************************************************************)
(* chat_service._parse_timestamp_seconds.  A message is the sequence of    *)
(* its characters.  The regular expressions are matched on the runs of the *)
(* lowered message (a maximal run of digits, of letters or of whitespace,  *)
(* or one other character): every \d+ and every unit of the patterns is    *)
(* followed by \s, a digit, a colon or \b, so it matches a whole run or    *)
(* nothing, and \b before \d holds when no letter comes before the digits. *)
(***************************************************************************)
UpperChars == <<"A", "B", "C", "D", "E", "F", "G", "H", "I", "J", "K", "L", "M",
                "N", "O", "P", "Q", "R", "S", "T", "U", "V", "W", "X", "Y", "Z">>
LowerChars == <<"a", "b", "c", "d", "e", "f", "g", "h", "i", "j", "k", "l", "m",
                "n", "o", "p", "q", "r", "s", "t", "u", "v", "w", "x", "y", "z">>
DigitChars == <<"0", "1", "2", "3", "4", "5", "6", "7", "8", "9">>
SpaceChars == {" ", "\t", "\n"}

CharsOf(seq) == {seq[i] : i \in 1..Len(seq)}
IndexIn(seq, c) == IF c \in CharsOf(seq) THEN CHOOSE i \in 1..Len(seq) : seq[i] = c ELSE 0

Digits == CharsOf(DigitChars)
Uppers == CharsOf(UpperChars)
WordLetters == CharsOf(LowerChars) \cup Uppers \cup {"_"}

\* line 155: message.lower()
LowerOf == [c \in Uppers |-> LowerChars[IndexIn(UpperChars, c)]]
LowerChar(c) == IF c \in Uppers THEN LowerOf[c] ELSE c
LowerText(message) == [i \in 1..Len(message) |-> LowerChar(message[i])]

\* \d, \w (letters and "_"), \s, anything else
CharClass(c) ==
    IF c \in Digits THEN "num"
    ELSE IF c \in WordLetters THEN "let"
    ELSE IF c \in SpaceChars THEN "sp"
    ELSE "punct"

RECURSIVE RunEnd(_, _, _)
RunEnd(msg, j, class) ==
    IF class # "punct" /\ j < Len(msg) /\ CharClass(msg[j + 1]) = class
    THEN RunEnd(msg, j + 1, class) ELSE j

RECURSIVE Runs(_, _)
Runs(msg, i) ==
    IF i > Len(msg) THEN <<>>
    ELSE LET class == CharClass(msg[i])
             j == RunEnd(msg, i, class)
         IN  <<[k |-> class, text |-> SubSeq(msg, i, j)]>> \o Runs(msg, j + 1)

RunAt(runs, i) == IF i \in 1..Len(runs) THEN runs[i] ELSE [k |-> "end", text |-> <<>>]

\* int(m.group(n))
RECURSIVE IntOf(_)
IntOf(digits) ==
    IF digits = <<>> THEN 0
    ELSE IntOf(SubSeq(digits, 1, Len(digits) - 1)) * 10
         + (IndexIn(DigitChars, digits[Len(digits)]) - 1)

IsDigits(run, lo, hi) == run.k = "num" /\ Len(run.text) >= lo /\ Len(run.text) <= hi
IsColon(run) == run.k = "punct" /\ run.text = <<":">>
\* \b before a digit, \b after a digit or a letter
BoundaryBefore(runs, i) == RunAt(runs, i - 1).k # "let"
BoundaryAfter(runs, i) == RunAt(runs, i + 1).k \notin {"let", "num"}

\* re.search: the match at the smallest start, given the match at every start
Search(matches) ==
    LET hits == {i \in 1..Len(matches) : ~IsNone(matches[i])}
    IN  IF hits = {} THEN None
        ELSE matches[CHOOSE i \in hits : \A j \in hits : i <= j]

\* line 158: \b(?:(\d{1,2}):)?(\d{1,2}):(\d{2})\b at run i, as [h, mi, s]
ClockAt(runs, i) ==
    LET r(n) == RunAt(runs, i + n)
    IN  IF ~(BoundaryBefore(runs, i) /\ IsDigits(r(0), 1, 2) /\ IsColon(r(1))) THEN None
        ELSE IF /\ IsDigits(r(2), 1, 2) /\ IsColon(r(3))
                /\ IsDigits(r(4), 2, 2) /\ BoundaryAfter(runs, i + 4)
        THEN Some([h |-> IntOf(r(0).text), mi |-> IntOf(r(2).text), s |-> IntOf(r(4).text)])
        ELSE IF IsDigits(r(2), 2, 2) /\ BoundaryAfter(runs, i + 2)
        THEN Some([h |-> 0, mi |-> IntOf(r(0).text), s |-> IntOf(r(2).text)])
        ELSE None

HourWords == {<<"h">>, <<"h", "o", "u", "r">>, <<"h", "o", "u", "r", "s">>}
MinWords == {<<"m", "i", "n">>, <<"m", "i", "n", "s">>, <<"m", "i", "n", "u", "t", "e">>,
             <<"m", "i", "n", "u", "t", "e", "s">>}
SecWords == {<<"s", "e", "c">>, <<"s", "e", "c", "s">>, <<"s", "e", "c", "o", "n", "d">>,
             <<"s", "e", "c", "o", "n", "d", "s">>}
MinuteWords == {<<"m">>} \cup MinWords
SecondWords == {<<"s">>} \cup SecWords

\* \s*
SkipSpace(runs, i) == IF RunAt(runs, i).k = "sp" THEN i + 1 ELSE i

\* (\d+)\s*<unit> at run i: the run after the unit, 0 when there is no match
UnitAt(runs, i, words) ==
    LET j == SkipSpace(runs, i + 1)
    IN  IF RunAt(runs, i).k = "num" /\ RunAt(runs, j).k = "let" /\ RunAt(runs, j).text \in words
        THEN j + 1 ELSE 0

\* (\d+)\s*s(?:ec(?:ond)?s?)?\b at run i
LastUnitAt(runs, i, words) ==
    LET e == UnitAt(runs, i, words)
    IN  IF e # 0 /\ RunAt(runs, e).k # "num" THEN e ELSE 0

\* line 166: the unit pattern at run i, as [h, mi, s]; the hours and the
\* minutes group are optional, the seconds group is not
CompoundAt(runs, i) ==
    LET num(j) == IntOf(RunAt(runs, j).text)
        hEnd == UnitAt(runs, i, HourWords)
        m0 == IF hEnd # 0 THEN SkipSpace(runs, hEnd) ELSE i
        mEnd == UnitAt(runs, m0, MinuteWords)
        s0 == IF mEnd # 0 THEN SkipSpace(runs, mEnd) ELSE m0
        h == IF hEnd # 0 THEN num(i) ELSE 0
    IN  IF ~BoundaryBefore(runs, i) THEN None
        ELSE IF LastUnitAt(runs, s0, SecondWords) # 0
        THEN Some([h |-> h, mi |-> IF mEnd # 0 THEN num(m0) ELSE 0, s |-> num(s0)])
        ELSE None

\* line 175: \b(\d+)\s*min(?:ute)?s?\b, line 179: \b(\d+)\s*sec(?:ond)?s?\b,
\* line 185: \b(\d+)\s*s(?:ec(?:ond)?s?)?\b at run i, as the number
MinutesAt(runs, i) ==
    IF BoundaryBefore(runs, i) /\ LastUnitAt(runs, i, MinWords) # 0
    THEN Some(IntOf(RunAt(runs, i).text)) ELSE None

SecAt(runs, i) ==
    IF BoundaryBefore(runs, i) /\ LastUnitAt(runs, i, SecWords) # 0
    THEN Some(IntOf(RunAt(runs, i).text)) ELSE None

SecondsAt(runs, i) ==
    IF BoundaryBefore(runs, i) /\ LastUnitAt(runs, i, SecondWords) # 0
    THEN Some(IntOf(RunAt(runs, i).text)) ELSE None

HmsSeconds(t) == t.h * 3600 + t.mi * 60 + t.s

ParseTimestampSeconds(message) ==
    LET runs == Runs(LowerText(message), 1)
        clock == Search([i \in 1..Len(runs) |-> ClockAt(runs, i)])
        compound == Search([i \in 1..Len(runs) |-> CompoundAt(runs, i)])
        minutes == Search([i \in 1..Len(runs) |-> MinutesAt(runs, i)])
        sec == Search([i \in 1..Len(runs) |-> SecAt(runs, i)])
        seconds == Search([i \in 1..Len(runs) |-> SecondsAt(runs, i)])
    IN  IF ~IsNone(clock) THEN Some(HmsSeconds(Val(clock)))
        ELSE IF ~IsNone(compound) /\ HmsSeconds(Val(compound)) # 0
        THEN Some(HmsSeconds(Val(compound)))
        ELSE IF ~IsNone(minutes)
        THEN Some(Val(minutes) * 60 + (IF ~IsNone(sec) THEN Val(sec) ELSE 0))
        ELSE IF ~IsNone(seconds) THEN Some(Val(seconds))
        ELSE None

\* the message as a text, and message.split()
MessageText(message) == message

RECURSIVE SplitFrom(_, _, _)
SplitFrom(text, i, word) ==
    IF i > Len(text) THEN (IF word = <<>> THEN <<>> ELSE <<word>>)
    ELSE IF text[i] \in SpaceChars
    THEN (IF word = <<>> THEN <<>> ELSE <<word>>) \o SplitFrom(text, i + 1, <<>>)
    ELSE SplitFrom(text, i + 1, Append(word, text[i]))

MessageWords(message) == SplitFrom(message, 1, <<>>)

(***************************************************************************)
(* chat_service.chat_once.  A text is the sequence of its pieces, "" is    *)
(* <<>>.                                                                   *)
(***************************************************************************)
UseRagDefault == FALSE
TopKDefault == 6
WindowDefault == 1
TranscriptLimit == 15000

\* youtube_url.split("v=")[-1] on a URL given as its pieces
RECURSIVE SplitLast(_)
SplitLast(url) ==
    IF \E i \in 1..Len(url) : url[i] = "v=" THEN SplitLast(Tail(url))
    ELSE IF url = <<>> THEN ""
    ELSE Head(url) \o SplitLast(Tail(url))

VidKey(video_id, youtube_url) ==
    IF ~IsNone(video_id) THEN Val(video_id) ELSE SplitLast(Val(youtube_url))

\* has_index on any key: a key that names no file has no index
HasIndexKey(key) == key \in Videos /\ HasIndex(key)

\* lines 59-65: the instance, or None, and the name meta reports
SelectBackend(backend, model, env) ==
    LET inst == IF backend # "" THEN GetBackend(backend, model, env)
                ELSE AutoSelect("ollama", model, env)
    IN  IF inst.outcome = "ok"
        THEN [instance |-> Some(inst.value),
              selected |-> IF backend # "" THEN backend ELSE inst.value.kind]
        ELSE [instance |-> None, selected |-> IF backend # "" THEN backend ELSE "auto"]

\* lines 68-73: fetch is what get_transcript_text does when it is called
TranscriptText(youtube_url, fetch) ==
    IF IsNone(youtube_url) \/ fetch.outcome # "ok" THEN <<>>
    ELSE SubSeq(fetch.value, 1, Min(Len(fetch.value), TranscriptLimit))

\* lines 78-91: the retrieval that is run, "skipped" when none is
Retrieval(use_rag, vid_key, message, top_k, window) ==
    IF ~(use_rag /\ vid_key # "" /\ HasIndexKey(vid_key)) THEN [outcome |-> "skipped", value |-> <<>>]
    ELSE LET ts == ParseTimestampSeconds(message)
         IN  IF ~IsNone(ts)
             THEN RetrieveByTimestampCall(vid_key, Val(ts),
                      IF ~IsNone(window) /\ Val(window) >= 0 THEN Val(window) ELSE WindowDefault)
             ELSE RetrieveCall(vid_key, MessageText(message),
                      IF IsNone(top_k) \/ Val(top_k) = 0 THEN TopKDefault ELSE Val(top_k))

RagResults(retrieval) == IF retrieval.outcome = "ok" THEN retrieval.value ELSE <<>>

\* lines 88-89: the context chunks as the prompt shows them, "[c<i>] <text>"
RagChunksText(rag_results) ==
    [i \in 1..Len(rag_results) |-> [label |-> <<"c", i>>, text |-> rag_results[i].text]]

\* variant of ContextKind: the transcript is preferred to the chunks
ContextKindTranscriptFirst(rag_results, transcript_text) ==
    IF transcript_text # <<>> THEN "transcript" ELSE IF rag_results # <<>> THEN "chunks" ELSE "none"

\* lines 94-103: what the prompt is grounded on
ContextKind(rag_results, transcript_text) ==
    IF rag_results # <<>> THEN "chunks" ELSE IF transcript_text # <<>> THEN "transcript" ELSE "none"

\* lines 94-97: the instruction that follows the first line of system
SystemInstruction(rag_chunks_text) ==
    IF rag_chunks_text # <<>> THEN "Answer STRICTLY using the provided context chunks; cite [cN].\n"
    ELSE "Use the transcript context if available. If not present, say so.\n"

\* lines 98-103: the prompt as its parts, an absent block being empty
ChatPrompt(rag_chunks_text, transcript_text, message) ==
    LET kind == ContextKind(rag_chunks_text, transcript_text)
    IN  [system |-> SystemInstruction(rag_chunks_text),
         context_chunks |-> IF kind = "chunks" THEN rag_chunks_text ELSE <<>>,
         transcript |-> IF kind = "transcript" THEN transcript_text ELSE <<>>,
         question |-> message]

RECURSIVE JoinWith(_, _)
JoinWith(parts, sep) ==
    IF parts = <<>> THEN <<>>
    ELSE IF Len(parts) = 1 THEN parts[1]
    ELSE parts[1] \o sep \o JoinWith(Tail(parts), sep)

TranscriptAnswer(message) ==
    <<"Based on the transcript, here are 3 key points:\n- ">>
    \o JoinWith(SubSeq(MessageWords(message), 1, Min(3, Len(MessageWords(message)))), <<"\n- ">>)

InabilityAnswer == <<"I could not access the transcript to answer this question.">>

\* variant of ChatAnswer: whatever generate returned is the answer
ChatAnswerAsGenerated(generated, transcript_text, message) ==
    IF ~IsNone(generated) /\ Val(generated).outcome = "ok"
    THEN Val(Val(generated).value)
    ELSE IF transcript_text # <<>> THEN TranscriptAnswer(message) ELSE InabilityAnswer

\* lines 106-119: generated is None when there is no backend instance,
\* else what generate returned or raised
ChatAnswer(generated, transcript_text, message) ==
    LET answer == IF ~IsNone(generated) /\ Val(generated).outcome = "ok"
                  THEN Val(Val(generated).value) ELSE <<>>
    IN  IF answer # <<>> THEN answer
        ELSE IF transcript_text # <<>> THEN TranscriptAnswer(message)
        ELSE InabilityAnswer

\* variant of Citations: the labels count from 0
CitationsFromZero(rag_results) ==
    IF rag_results = <<>> THEN None
    ELSE Some([i \in 1..Len(rag_results) |->
                  [chunk_id |-> <<"c", i - 1>>,
                   text |-> rag_results[i].text,
                   score |-> rag_results[i].score,
                   chunk_index |-> rag_results[i].chunk_index,
                   start_sec |-> rag_results[i].start_sec,
                   end_sec |-> rag_results[i].end_sec]])

\* lines 122-133
Citations(rag_results) ==
    IF rag_results = <<>> THEN None
    ELSE Some([i \in 1..Len(rag_results) |->
                  [chunk_id |-> <<"c", i>>,
                   text |-> rag_results[i].text,
                   score |-> rag_results[i].score,
                   chunk_index |-> rag_results[i].chunk_index,
                   start_sec |-> rag_results[i].start_sec,
                   end_sec |-> rag_results[i].end_sec]])

\* what get_transcript_text is seen to do
FetchOutcomes == {Raised("TranscriptError"), Returned(<<"a", " ", "a">>)}
NotFetched == [outcome |-> "skipped", value |-> <<>>]

ChatOnce(youtube_url, video_id, message, backend, model, use_rag, top_k, window, env) ==
    LET rag == IF IsNone(use_rag) THEN UseRagDefault ELSE Val(use_rag)
        request == [op |-> "chat_once", youtube_url |-> youtube_url, video_id |-> video_id,
                    message |-> message]
    IN  IF IsNone(youtube_url) /\ IsNone(video_id)
        THEN /\ last' = [call |-> request, res |-> Raised("HTTPException")]
             /\ UNCHANGED <<storeVars, nonStoreVars>>
        ELSE LET vid_key == VidKey(video_id, youtube_url)
                 selection == SelectBackend(Lower(backend), model, env)
                 retrieval == Retrieval(rag, vid_key, message, top_k, window)
                 rag_results == RagResults(retrieval)
             IN  \* get_transcript_text is called when there is a URL, and generate
                 \* on the instance that was selected
                 \E fetch \in IF IsNone(youtube_url) THEN {NotFetched} ELSE FetchOutcomes,
                    generated \in IF IsNone(selection.instance) THEN {None}
                                  ELSE {Some(g) : g \in GenerateOutcomes(Val(selection.instance).kind)} :
                    LET transcript_text == TranscriptText(youtube_url, fetch)
                    IN  /\ last' =
                             [call |-> [op |-> "chat_once", youtube_url |-> youtube_url,
                                        video_id |-> video_id, message |-> message,
                                        fetched |-> fetch.outcome,
                                        transcript_text |-> transcript_text,
                                        retrieved |-> retrieval.outcome,
                                        rag_results |-> rag_results,
                                        rag_chunks_text |-> RagChunksText(rag_results),
                                        context |-> ContextKind(RagChunksText(rag_results),
                                                                transcript_text),
                                        prompt |-> ChatPrompt(RagChunksText(rag_results),
                                                              transcript_text, message),
                                        generated |-> generated],
                              res |-> Returned(
                                 [answer |-> ChatAnswer(generated, transcript_text, message),
                                  citations |-> Citations(rag_results),
                                  meta |-> [backend |-> selection.selected,
                                            model |-> IF IsNone(model) THEN "default" ELSE Val(model),
                                            use_rag |-> rag,
                                            fallback |-> IsNone(selection.instance),
                                            top_k |-> top_k,
                                            window |-> window]])]
                        /\ UNCHANGED <<storeVars, nonStoreVars>>

(***************************************************************************)
(* Requests of chat_once, and the indexes it finds.                        *)
(***************************************************************************)
WatchUrl == <<"https://www.youtube.com/watch?", "v=", "v1">>
ShortUrl == <<"https://youtu.be/", "v1">>
TargetInputs ==
    { [youtube_url |-> None, video_id |-> None],
      [youtube_url |-> None, video_id |-> Some("v1")],
      [youtube_url |-> Some(WatchUrl), video_id |-> None],
      [youtube_url |-> Some(ShortUrl), video_id |-> None] }
MessageInputs == { <<"a">>, <<"a", " ", "0", ":", "0", "7">> }
BackendInputs == {"", "Gemini", "bogus"}
\* use_rag, top_k and window of a request
RagInputs ==
    { [use_rag |-> None, top_k |-> None, window |-> None],
      [use_rag |-> Some(TRUE), top_k |-> None, window |-> None],
      [use_rag |-> Some(TRUE), top_k |-> Some(1), window |-> Some(0)] }
\* both kinds usable, the hosted one only, none
AllGenerateOutcomes == GenerateOutcomes("ollama") \cup GenerateOutcomes("gemini")
ChatEnvs ==
    {env \in Envs : /\ \A k \in Kinds : env[k].construct = env[k].available
                    /\ env["ollama"].construct => env["gemini"].construct}
ChatBuildInputs ==
    { [text |-> <<"a">>, segments |-> <<Segment("long", 1), Segment("long", 2)>>] }

(***************************************************************************)
(* conversation_manager: the conversation files of a ConversationManager.  *)
(* A file holds the conversation that json.dump wrote, or what a write cut *)
(* short left: a truncated text (json.load raises JSONDecodeError) or a    *)
(* text cut inside a multi-byte character (ensure_ascii=False; reading it  *)
(* raises UnicodeDecodeError).  Timestamps are left out.                   *)
(***************************************************************************)
\* largest max_history a manager is built with
MaxMaxHistory == 2
\* most messages appended to one conversation
MaxAppends == 4
\* most messages pushed to one chat_history document
MaxSaved == 1

ConvUsers == {"u1"}
ConvVideos == {"v1"}

\* _get_conversation_path: f"{user_id}_{video_id}.json"
ConvPath(user_id, video_id) == user_id \o "_" \o video_id \o ".json"
ConvPaths == {ConvPath(u, v) : u \in ConvUsers, v \in ConvVideos}

EmptyConversation == [messages |-> <<>>, transcript |-> <<>>]

ConvDump(conversation) == [kind |-> "conversation", data |-> conversation]
CutShort(kind) == [kind |-> kind, data |-> EmptyConversation]
CutKinds == {"truncated", "undecodable"}

\* ConversationManager.__init__
NewManager(max_history, backend_kind) ==
    /\ IsNone(manager)
    /\ manager' = Some([max_history |-> max_history, backend_kind |-> backend_kind])
    /\ last' = [call |-> [op |-> "ConversationManager", max_history |-> max_history],
                res |-> Returned(None)]
    /\ UNCHANGED <<convFile, appended, chatHistory, nonConvVars>>

\* load_conversation on what the file holds
LoadOf(content) ==
    IF IsNone(content) THEN Returned(EmptyConversation)
    ELSE IF Val(content).kind = "conversation" THEN Returned(Val(content).data)
    ELSE IF Val(content).kind = "truncated" THEN Returned(EmptyConversation)
    ELSE Raised("UnicodeDecodeError")

\* messages[-(n):] of Python: the whole list when n = 0
SliceFromMinus(messages, n) ==
    IF n = 0 \/ n >= Len(messages) THEN messages
    ELSE SubSeq(messages, Len(messages) - n + 1, Len(messages))

\* lines 152-157
Trim(messages, max_history) ==
    IF Len(messages) > max_history * 2 THEN SliceFromMinus(messages, max_history * 2)
    ELSE messages

Message(role, content) == [role |-> role, content |-> content]

\* add_message on what the file holds: what it raises, or the file it leaves
AddMessageTo(content, role, text, max_history) ==
    LET loaded == LoadOf(content)
    IN  IF loaded.outcome # "ok" THEN loaded
        ELSE Returned(Some(ConvDump(
                 [loaded.value EXCEPT
                     !.messages = Trim(Append(loaded.value.messages, Message(role, text)),
                                       max_history)])))

\* set_transcript on what the file holds (the file was just loaded)
SetTranscriptTo(content, transcript) ==
    Some(ConvDump([LoadOf(content).value EXCEPT !.transcript = transcript]))

LoadConversation(user_id, video_id) ==
    /\ ~IsNone(manager)
    /\ last' = [call |-> [op |-> "load_conversation", user_id |-> user_id,
                          video_id |-> video_id],
                res |-> LoadOf(convFile[ConvPath(user_id, video_id)])]
    /\ UNCHANGED <<convVars, nonConvVars>>

AddMessage(user_id, video_id, role, content) ==
    LET path == ConvPath(user_id, video_id)
        written == AddMessageTo(convFile[path], role, content, Val(manager).max_history)
        call == [op |-> "add_message", user_id |-> user_id, video_id |-> video_id,
                 role |-> role, content |-> content]
    IN  /\ ~IsNone(manager)
        /\ Len(appended[path]) < MaxAppends
        /\ IF written.outcome = "ok"
           THEN /\ convFile' = [convFile EXCEPT ![path] = written.value]
                /\ appended' = [appended EXCEPT ![path] = Append(@, Message(role, content))]
                /\ last' = [call |-> call, res |-> Returned(None)]
           ELSE /\ last' = [call |-> call, res |-> written]
                /\ UNCHANGED <<convFile, appended>>
        /\ UNCHANGED <<manager, chatHistory, nonConvVars>>

SummaryLimit == 240
FallbackResponse(message) ==
    <<"(Fallback response) Unable to reach LLM backend. Summary of your request: ">>
    \o SubSeq(message, 1, Min(Len(message), SummaryLimit))

\* _build_prompt: transcript[:15000]
PromptTranscript(transcript) == SubSeq(transcript, 1, Min(Len(transcript), TranscriptLimit))

\* ConversationManager.chat; generated is what backend.generate does
ManagerChat(user_id, video_id, message, transcript, generated) ==
    LET path == ConvPath(user_id, video_id)
        max_history == Val(manager).max_history
        conversation == LoadOf(convFile[path])
        call == [op |-> "chat", user_id |-> user_id, video_id |-> video_id,
                 message |-> message]
    IN  /\ ~IsNone(manager)
        /\ Len(appended[path]) + 2 <= MaxAppends
        /\ generated \in GenerateOutcomes(Val(manager).backend_kind)
        /\ IF conversation.outcome # "ok"
           THEN /\ last' = [call |-> call, res |-> conversation]
                /\ UNCHANGED <<convFile, appended>>
           ELSE LET attached == IF transcript # <<>> /\ conversation.value.transcript = <<>>
                                THEN SetTranscriptTo(convFile[path], transcript)
                                ELSE convFile[path]
                    response == IF generated.outcome = "ok" THEN Val(generated.value)
                                ELSE FallbackResponse(message)
                    asked == AddMessageTo(attached, "user", message, max_history).value
                    answered == AddMessageTo(asked, "assistant", response, max_history).value
                IN  /\ convFile' = [convFile EXCEPT ![path] = answered]
                    /\ appended' = [appended EXCEPT ![path] =
                           @ \o <<Message("user", message), Message("assistant", response)>>]
                    /\ last' = [call |-> [op |-> "chat", user_id |-> user_id,
                                          video_id |-> video_id, message |-> message,
                                          before |-> conversation.value.messages,
                                          stored_transcript |-> LoadOf(attached).value.transcript,
                                          prompt_transcript |->
                                              PromptTranscript(LoadOf(attached).value.transcript),
                                          generated |-> generated],
                                res |-> Returned(response)]
        /\ UNCHANGED <<manager, chatHistory, nonConvVars>>

(***************************************************************************)
(* chat_cli.chat_session on the conversation of u1 and v1: set_transcript, *)
(* then a loop of 'clear' and questions.  session.cleared records that the *)
(* loop has run clear_conversation.                                        *)
(***************************************************************************)
SessionTranscripts == {<<"a">>, <<"a", " ", "a">>}

\* lines 38-45: manager.set_transcript(user_id, video_id, transcript)
ChatSession(user_id, video_id, transcript) ==
    LET path == ConvPath(user_id, video_id)
    IN  /\ ~IsNone(manager)
        /\ IsNone(session)
        /\ LoadOf(convFile[path]).outcome = "ok"
        /\ convFile' = [convFile EXCEPT ![path] = SetTranscriptTo(convFile[path], transcript)]
        /\ session' = Some([transcript |-> transcript, cleared |-> FALSE])
        /\ last' = [call |-> [op |-> "set_transcript", user_id |-> user_id,
                              video_id |-> video_id, transcript |-> transcript],
                    res |-> Returned(None)]
        /\ UNCHANGED <<manager, appended, chatHistory>>
        /\ UNCHANGED <<storeVars, sharedVars, genVars, nonCliProc>>

\* lines 60-63 with clear_conversation: the conversation file is unlinked
SessionClear(user_id, video_id) ==
    LET path == ConvPath(user_id, video_id)
    IN  /\ ~IsNone(session)
        /\ convFile' = [convFile EXCEPT ![path] = None]
        /\ session' = Some([Val(session) EXCEPT !.cleared = TRUE])
        /\ last' = [call |-> [op |-> "clear_conversation", user_id |-> user_id,
                              video_id |-> video_id],
                    res |-> Returned(~IsNone(convFile[path]))]
        /\ UNCHANGED <<manager, appended, chatHistory>>
        /\ UNCHANGED <<storeVars, sharedVars, genVars, nonCliProc>>

\* lines 71-74: manager.chat(user_id, video_id, user_input), no transcript
SessionChat(user_id, video_id, user_input, generated) ==
    /\ ~IsNone(session)
    /\ ManagerChat(user_id, video_id, user_input, <<>>, generated)

(***************************************************************************)
(* processing_service.process_report as the background task of a report   *)
(* that insert_report created with status "queued".  Every awaited step    *)
(* returns or raises an Exception; the updates of the reports collection   *)
(* are accepted.  Runs of different reports interleave at the awaits.      *)
(***************************************************************************)
Reports == {"r1", "r2"}

\* the awaited steps between the two status updates, in order
Stages == <<"transcript", "segments", "video_meta", "index", "summary", "notes",
            "mindmap", "export", "upload", "artifacts">>
\* the steps inside a try block of their own (lines 58-62 and 68-72)
Tolerated == {"segments", "index"}
\* the steps that update the report document
StoreStages == {"video_meta", "artifacts"}
StageNames == {Stages[i] : i \in 1..Len(Stages)}

StageAfter(stage) ==
    LET i == CHOOSE k \in 1..Len(Stages) : Stages[k] = stage
    IN  IF i = Len(Stages) THEN "succeed" ELSE Stages[i + 1]

IdleRun == [pc |-> "idle", raised |-> {}, statuses |-> <<>>]

\* report_repo.update_status: error is set only when it is not empty
UpdateStatus(docs, report_id, status, error) ==
    [docs EXCEPT ![report_id] =
        [status |-> status, error |-> IF error # "" THEN Some(error) ELSE @.error]]

\* lines 39-44
ProcessReport(report_id, db_configured) ==
    /\ reportRuns[report_id].pc = "idle"
    /\ IF db_configured
       THEN /\ reports' = UpdateStatus(reports, report_id, "running", "")
            /\ reportRuns' = [reportRuns EXCEPT ![report_id] =
                   [pc |-> Stages[1], raised |-> {}, statuses |-> <<"running">>]]
       ELSE /\ reportRuns' = [reportRuns EXCEPT ![report_id].pc = "done"]
            /\ UNCHANGED reports
    /\ UNCHANGED <<storeVars, sharedVars, genVars, convVars, last, nonRepProc>>

\* variant of StepRaises: a failed index build is not caught on its own
StepRaisesIndexFatal(report_id) ==
    LET stage == reportRuns[report_id].pc
    IN  /\ stage \in StageNames \ StoreStages
        /\ reportRuns' = [reportRuns EXCEPT ![report_id] =
               [pc |-> IF stage \in Tolerated \ {"index"} THEN StageAfter(stage) ELSE "except",
                raised |-> @.raised \cup {stage}, statuses |-> @.statuses]]
        /\ UNCHANGED reports
        /\ UNCHANGED <<storeVars, sharedVars, genVars, convVars, last, nonRepProc>>

\* lines 50-130: the awaited step returns
StepReturns(report_id) ==
    /\ reportRuns[report_id].pc \in StageNames
    /\ reportRuns' = [reportRuns EXCEPT ![report_id].pc = StageAfter(@)]
    /\ UNCHANGED reports
    /\ UNCHANGED <<storeVars, sharedVars, genVars, convVars, last, nonRepProc>>

\* lines 50-130: the awaited step raises; the segment fetch and the index
\* build are caught where they are, the rest by line 134
StepRaises(report_id) ==
    LET stage == reportRuns[report_id].pc
    IN  /\ stage \in StageNames \ StoreStages
        /\ reportRuns' = [reportRuns EXCEPT ![report_id] =
               [pc |-> IF stage \in Tolerated THEN StageAfter(stage) ELSE "except",
                raised |-> @.raised \cup {stage}, statuses |-> @.statuses]]
        /\ UNCHANGED reports
        /\ UNCHANGED <<storeVars, sharedVars, genVars, convVars, last, nonRepProc>>

\* line 131
ProcessSucceeded(report_id) ==
    /\ reportRuns[report_id].pc = "succeed"
    /\ reports' = UpdateStatus(reports, report_id, "succeeded", "")
    /\ reportRuns' = [reportRuns EXCEPT ![report_id] =
           [pc |-> "done", raised |-> @.raised, statuses |-> Append(@.statuses, "succeeded")]]
    /\ UNCHANGED <<storeVars, sharedVars, genVars, convVars, last, nonRepProc>>

\* lines 134-136
ProcessFailed(report_id) ==
    /\ reportRuns[report_id].pc = "except"
    /\ reports' = UpdateStatus(reports, report_id, "failed", "error")
    /\ reportRuns' = [reportRuns EXCEPT ![report_id] =
           [pc |-> "done", raised |-> @.raised, statuses |-> Append(@.statuses, "failed")]]
    /\ UNCHANGED <<storeVars, sharedVars, genVars, convVars, last, nonRepProc>>

\* save_conversation stopped while json.dump is writing
SaveInterrupted(user_id, video_id, kind) ==
    LET path == ConvPath(user_id, video_id)
    IN  /\ ~IsNone(manager)
        /\ convFile' = [convFile EXCEPT ![path] = Some(CutShort(kind))]
        /\ last' = [call |-> [op |-> "save_conversation", user_id |-> user_id,
                              video_id |-> video_id],
                    res |-> Raised("Interrupted")]
        /\ UNCHANGED <<manager, appended, chatHistory, nonConvVars>>

(***************************************************************************)
(* chat_repository.save_message: $push on the chat_history document of a   *)
(* video.                                                                  *)
(***************************************************************************)
SaveMessage(video_id, message) ==
    /\ Len(chatHistory[video_id]) < MaxSaved
    /\ chatHistory' = [chatHistory EXCEPT ![video_id] = Append(@, message)]
    /\ last' = [call |-> [op |-> "save_message", video_id |-> video_id],
                res |-> Returned(None)]
    /\ UNCHANGED <<convFile, manager, appended, nonConvVars>>

(***************************************************************************)
(* ConversationManager.chat called on several threads for one              *)
(* conversation.  No lock is taken: a thread can be suspended between the  *)
(* load_conversation and the save_conversation of add_message (file reads  *)
(* and writes release the interpreter lock).  pc is the next step of the   *)
(* call: load / save of add_message for the user message, then for the     *)
(* answer.                                                                 *)
(***************************************************************************)
Threads == {"t1", "t2"}
ThreadUser == "u1"
ThreadVideo == "v1"
IdleChat == [pc |-> "idle", message |-> <<>>, response |-> <<>>,
             conversation |-> EmptyConversation]

\* the message thread t sends and the answer its backend gives
AskedBy(t) == <<"q", t>>
AnswerTo(t) == <<"r", t>>

\* lines 269-306: load, build the prompt, generate
ChatGenerate(t) ==
    LET loaded == LoadOf(convFile[ConvPath(ThreadUser, ThreadVideo)])
    IN  /\ ~IsNone(manager)
        /\ chatThreads[t].pc = "idle"
        /\ loaded.outcome = "ok"
        /\ chatThreads' = [chatThreads EXCEPT ![t] =
               [pc |-> "user_load", message |-> AskedBy(t), response |-> AnswerTo(t),
                conversation |-> loaded.value]]
        /\ UNCHANGED <<convVars, storeVars, sharedVars, genVars, last, nonChatProc>>

\* add_message, line 139: load_conversation
ChatAddLoad(t) ==
    LET loaded == LoadOf(convFile[ConvPath(ThreadUser, ThreadVideo)])
        th == chatThreads[t]
    IN  /\ th.pc \in {"user_load", "answer_load"}
        /\ loaded.outcome = "ok"
        /\ chatThreads' = [chatThreads EXCEPT ![t] =
               [th EXCEPT !.pc = IF th.pc = "user_load" THEN "user_save" ELSE "answer_save",
                          !.conversation = loaded.value]]
        /\ UNCHANGED <<convVars, storeVars, sharedVars, genVars, last, nonChatProc>>

\* add_message, lines 141-159: append, trim, save_conversation; chat returns
\* after the second one
ChatAddSave(t) ==
    LET path == ConvPath(ThreadUser, ThreadVideo)
        th == chatThreads[t]
        message == IF th.pc = "user_save" THEN Message("user", th.message)
                   ELSE Message("assistant", th.response)
        conversation == [th.conversation EXCEPT
                            !.messages = Trim(Append(@, message), Val(manager).max_history)]
    IN  /\ th.pc \in {"user_save", "answer_save"}
        /\ convFile' = [convFile EXCEPT ![path] = Some(ConvDump(conversation))]
        /\ appended' = [appended EXCEPT ![path] = Append(@, message)]
        /\ chatThreads' = [chatThreads EXCEPT ![t] =
               [th EXCEPT !.pc = IF th.pc = "user_save" THEN "answer_load" ELSE "done"]]
        /\ last' = IF th.pc = "answer_save"
                   THEN [call |-> [op |-> "chat", user_id |-> ThreadUser,
                                   video_id |-> ThreadVideo, message |-> th.message,
                                   thread |-> t],
                         res |-> Returned(th.response)]
                   ELSE last
        /\ UNCHANGED <<manager, chatHistory, storeVars, sharedVars, genVars, nonChatProc>>

(***************************************************************************)
(* rag_store._get_model (and rag_embeddings.get_embedding_model, which has *)
(* the same body) called on several threads.  No lock is taken: a thread   *)
(* can be suspended between the test of the global and the assignment,     *)
(* while SentenceTransformer(...) loads the model.  An instance is named   *)
(* by the number of the constructor run that made it.                      *)
(***************************************************************************)
ModelThreads == {"t1", "t2", "t3"}
\* most _get_model calls one thread makes
MaxGetCalls == 2
IdleGetter == [pc |-> "idle", calls |-> 0, got |-> None]

\* line 20: if _MODEL is None
GetModelTest(t) ==
    /\ modelThreads[t].pc = "idle"
    /\ modelThreads[t].calls < MaxGetCalls
    /\ modelThreads' = [modelThreads EXCEPT ![t] =
           [pc |-> IF IsNone(embedModel) THEN "construct" ELSE "return",
            calls |-> @.calls + 1, got |-> @.got]]
    /\ UNCHANGED <<embedModel, constructed>>
    /\ UNCHANGED <<storeVars, sharedVars, genVars, convVars, last, nonSingProc>>

\* line 22: _MODEL = SentenceTransformer("all-MiniLM-L6-v2")
GetModelConstruct(t) ==
    /\ modelThreads[t].pc = "construct"
    /\ constructed' = constructed + 1
    /\ embedModel' = Some(constructed + 1)
    /\ modelThreads' = [modelThreads EXCEPT ![t].pc = "return"]
    /\ UNCHANGED <<storeVars, sharedVars, genVars, convVars, last, nonSingProc>>

\* line 23: return _MODEL
GetModelReturn(t) ==
    /\ modelThreads[t].pc = "return"
    /\ modelThreads' = [modelThreads EXCEPT ![t] =
           [pc |-> "idle", calls |-> @.calls, got |-> embedModel]]
    /\ last' = [call |-> [op |-> "_get_model", thread |-> t], res |-> Returned(embedModel)]
    /\ UNCHANGED <<embedModel, constructed>>
    /\ UNCHANGED <<storeVars, sharedVars, genVars, convVars, nonSingProc>>

ConvTexts == {<<"q1">>}
ConvRoles == {"user", "assistant"}

Init ==
    /\ indexFile = [v \in Videos |-> None]
    /\ metaFile = [v \in Videos |-> None]
    /\ last = [call |-> [op |-> "none"], res |-> Returned(None)]
    /\ faissIndex = None
    /\ faissMeta = None
    /\ genKind = "none"
    /\ genPc = "idle"
    /\ attempt = 0
    /\ invocations = 0
    /\ lastResp = NoResponse
    /\ lastSleep = 0
    /\ genResult = Returned(None)
    /\ convFile = [p \in ConvPaths |-> None]
    /\ manager = None
    /\ appended = [p \in ConvPaths |-> <<>>]
    /\ chatHistory = [v \in Videos |-> <<>>]
    /\ chatThreads = [t \in Threads |-> IdleChat]
    /\ embedModel = None
    /\ constructed = 0
    /\ modelThreads = [t \in ModelThreads |-> IdleGetter]
    /\ session = None
    /\ reports = [r \in Reports |-> [status |-> "queued", error |-> None]]
    /\ reportRuns = [r \in Reports |-> IdleRun]

vars == <<storeVars, sharedVars, last, genVars, convVars, procVars>>

Next ==
    \/ \E v \in StoreVideos, b \in BuildInputs : BuildIndex(v, b.text, b.segments)
    \/ \E v \in StoreVideos, b \in BuildInputs : BuildIndexInterrupted(v, b.text, b.segments)
    \/ \E v \in StoreVideos, q \in QueryInputs, k \in 1..MaxTopK : Retrieve(v, q, k)
    \/ \E v \in StoreVideos, t \in TimeInputs, w \in 0..MaxWindow : RetrieveByTimestamp(v, t, w)
    \/ \E v \in StoreVideos : GetIndexStats(v)
    \/ \E v \in StoreVideos : GetChunks(v)

Spec == Init /\ [][Next]_vars

NextIndexer ==
    \E v \in Videos, t \in IndexerTranscripts, force \in BOOLEAN, use_rag \in BOOLEAN :
        IndexTranscript(v, t, force, use_rag)

SpecIndexer == Init /\ [][NextIndexer]_vars

\* builds of both kinds on two documents
DocTranscripts == {Sentence(2), JoinSpace(<<Sentence(3), Sentence(2)>>)}

NextDocs ==
    \/ \E v \in Videos, b \in ChatBuildInputs : BuildIndex(v, b.text, b.segments)
    \/ \E v \in Videos, b \in ChatBuildInputs : BuildIndexInterrupted(v, b.text, b.segments)
    \/ \E v \in Videos, t \in DocTranscripts, force \in BOOLEAN :
           IndexTranscript(v, t, force, TRUE)

SpecDocs == Init /\ [][NextDocs]_vars

\* builds that run to their end and builds stopped between the two writes
NextWrites ==
    \/ \E v \in StoreVideos, b \in BuildInputs : BuildIndex(v, b.text, b.segments)
    \/ \E v \in StoreVideos, b \in BuildInputs :
           BuildIndexBetweenWrites(v, b.text, b.segments)
    \/ \E v \in StoreVideos, q \in QueryInputs, k \in 1..MaxTopK : Retrieve(v, q, k)

SpecWrites == Init /\ [][NextWrites]_vars

\* chunk_transcript on transcripts of up to three sentences
ChunkerSentences == {Sentence(1), Sentence(2), Sentence(3)}

ChunkerTranscripts ==
    UNION { {JoinSpace(parts) : parts \in [1..n -> ChunkerSentences]} : n \in 0..3 }
    \cup { <<" ">> \o Sentence(2) \o <<" ", " ">> \o Sentence(3) \o <<" ">>,
           Sentence(2) \o <<" ", "a">> }

ChunkerTargets == {0, 1, 3, 5}
ChunkerOverlaps == {0, 1}

ChunkTranscriptCall(transcript, target_tokens, overlap_tokens) ==
    /\ last' = [call |-> [op |-> "chunk_transcript", transcript |-> transcript,
                          target_tokens |-> target_tokens,
                          overlap_tokens |-> overlap_tokens],
                res |-> Returned(ChunkTranscript(transcript, target_tokens, overlap_tokens))]
    /\ UNCHANGED <<storeVars, nonStoreVars>>

NextChunker ==
    \E transcript \in ChunkerTranscripts, target_tokens \in ChunkerTargets,
       overlap_tokens \in ChunkerOverlaps :
        ChunkTranscriptCall(transcript, target_tokens, overlap_tokens)

SpecChunker == Init /\ [][NextChunker]_vars

\* _chunk_segments on up to MaxSegs segments whose i-th starts at
\* SegPeriod * (i - 1): blank, short or longer than chunk_chars (with a
\* leading blank), lasting half a period or one and a half
TimedSegment(kind, i, duration) ==
    [text |-> IF kind = "blank" THEN <<" ">>
              ELSE IF kind = "short" THEN <<"a">>
              ELSE <<" ">> \o [j \in 1..(ChunkChars + 1) |-> "a"],
     start |-> SegPeriod * (i - 1),
     duration |-> duration]

TimedKinds == {"blank", "short", "over"} \X {SegPeriod \div 2, SegPeriod + SegPeriod \div 2}

TimedSegInputs ==
    {[i \in 1..Len(ks) |-> TimedSegment(ks[i][1], i, ks[i][2])] : ks \in SeqsUpTo(TimedKinds, MaxSegs)}

ChunkSegmentsCall(segments, chunk_chars) ==
    /\ last' = [call |-> [op |-> "_chunk_segments", segments |-> segments,
                          chunk_chars |-> chunk_chars],
                res |-> Returned(ChunkSegments(segments, chunk_chars))]
    /\ UNCHANGED <<storeVars, nonStoreVars>>

NextSegments ==
    \E segments \in TimedSegInputs : ChunkSegmentsCall(segments, ChunkChars)

SpecSegments == Init /\ [][NextSegments]_vars

NextGen ==
    \/ \E kind \in {"ollama", "gemini"} : GenCall(kind)
    \/ \E resp \in OllamaResponses : OllamaSend(resp)
    \/ \E resp \in GeminiResponses, jitter \in 0..JitterTenths : GeminiSend(resp, jitter)
    \/ GeminiBackoff
    \/ GeminiExhausted
    \/ GenReturn

\* a provider invocation returns or raises, and a sleep ends
SpecGen ==
    /\ Init
    /\ [][NextGen]_vars
    /\ WF_vars(\E resp \in OllamaResponses : OllamaSend(resp))
    /\ WF_vars(\E resp \in GeminiResponses, jitter \in 0..JitterTenths : GeminiSend(resp, jitter))
    /\ WF_vars(GeminiBackoff)
    /\ WF_vars(GeminiExhausted)

NextChat ==
    \/ \E b \in ChatBuildInputs : BuildIndex("v1", b.text, b.segments)
    \/ \E b \in ChatBuildInputs : BuildIndexInterrupted("v1", b.text, b.segments)
    \/ \E preferred \in Kinds, model \in ModelInputs, env \in Envs :
           AutoSelectBackend(preferred, model, env)
    \/ \E target \in TargetInputs, message \in MessageInputs, backend \in BackendInputs,
          rag \in RagInputs, env \in ChatEnvs :
           ChatOnce(target.youtube_url, target.video_id, message, backend, None,
                    rag.use_rag, rag.top_k, rag.window, env)

SpecChat == Init /\ [][NextChat]_vars

\* the messages _parse_timestamp_seconds is applied to: one or two fragments
RouterFragments ==
    { <<"4", ":", "3", "2">>, <<"1", ":", "0", "2", ":", "0", "3">>,
      <<"1", "h">>, <<"4", "m">>, <<"3", "2", "s">>, <<"1", "h", "4", "m">>, <<"0", "s">>,
      <<" ", "5", " ", "m", "i", "n">>, <<" ", "9", " ", "S", "e", "c">>,
      <<" ", "a", "t", " ">>, <<"7">> }

RouterMessages == RouterFragments \cup {a \o b : a, b \in RouterFragments}

ParseTimestamp(message) ==
    /\ last' = [call |-> [op |-> "_parse_timestamp_seconds", message |-> message],
                res |-> Returned(ParseTimestampSeconds(message))]
    /\ UNCHANGED <<storeVars, nonStoreVars>>

NextRouter == \E message \in RouterMessages : ParseTimestamp(message)

SpecRouter == Init /\ [][NextRouter]_vars

ConvSteps ==
    \/ \E max_history \in 0..MaxMaxHistory : NewManager(max_history, "ollama")
    \/ \E u \in ConvUsers, v \in ConvVideos : LoadConversation(u, v)
    \/ \E u \in ConvUsers, v \in ConvVideos, role \in ConvRoles, content \in ConvTexts :
           AddMessage(u, v, role, content)
    \/ \E u \in ConvUsers, v \in ConvVideos, transcript \in {<<>>, <<"a", " ", "a">>},
          generated \in AllGenerateOutcomes :
           ManagerChat(u, v, <<"q1">>, transcript, generated)
    \/ \E v \in ConvVideos, role \in ConvRoles : SaveMessage(v, Message(role, <<"q1">>))
    \/ \E env \in ChatEnvs :
           ChatOnce(None, Some("v1"), <<"a">>, "", None, None, None, None, env)

NextConv == ConvSteps

SpecConv == Init /\ [][NextConv]_vars

NextConvFaults ==
    \/ ConvSteps
    \/ \E u \in ConvUsers, v \in ConvVideos, kind \in CutKinds : SaveInterrupted(u, v, kind)

SpecConvFaults == Init /\ [][NextConvFaults]_vars

NextThreads ==
    \/ \E max_history \in 0..MaxMaxHistory : NewManager(max_history, "ollama")
    \/ \E t \in Threads : ChatGenerate(t)
    \/ \E t \in Threads : ChatAddLoad(t)
    \/ \E t \in Threads : ChatAddSave(t)

SpecThreads == Init /\ [][NextThreads]_vars

NextSession ==
    \/ \E max_history \in 0..MaxMaxHistory : NewManager(max_history, "ollama")
    \/ \E transcript \in SessionTranscripts : ChatSession("u1", "v1", transcript)
    \/ SessionClear("u1", "v1")
    \/ \E generated \in AllGenerateOutcomes : SessionChat("u1", "v1", <<"q1">>, generated)
    \/ LoadConversation("u1", "v1")

SpecSession == Init /\ [][NextSession]_vars

\* what a run does once it is started
RunStep(r) ==
    \/ StepReturns(r)
    \/ StepRaises(r)
    \/ ProcessSucceeded(r)
    \/ ProcessFailed(r)

NextReports ==
    \/ \E r \in Reports, db_configured \in BOOLEAN : ProcessReport(r, db_configured)
    \/ \E r \in Reports : StepReturns(r)
    \/ \E r \in Reports : StepRaises(r)
    \/ \E r \in Reports : ProcessSucceeded(r)
    \/ \E r \in Reports : ProcessFailed(r)

\* the event loop resumes a started run: each of its awaits ends
SpecReports ==
    /\ Init
    /\ [][NextReports]_vars
    /\ \A r \in Reports : WF_vars(RunStep(r))

NextModel ==
    \/ \E t \in ModelThreads : GetModelTest(t)
    \/ \E t \in ModelThreads : GetModelConstruct(t)
    \/ \E t \in ModelThreads : GetModelReturn(t)

SpecModel == Init /\ [][NextModel]_vars

(***************************************************************************)
(* Claims about rag_store, checked under Spec.                             *)
(***************************************************************************)
IsCall(op) == last.call.op = op

\* the chunk records a reader finds for video_id (only where the metadata parses)
StoredChunks(video_id) == JsonLoads(Val(metaFile[video_id])).chunks

Readable(video_id) == HasIndex(video_id) /\ JsonParses(Val(metaFile[video_id]))

\* C1: after build_index succeeds on input that yields n >= 1 chunks, has_index
\* is true, get_index_stats gives chunk_count = n and get_chunks gives exactly
\* those n chunks, in order, with the same text and start/end times.
C1_BuildRoundTrip ==
    (IsCall("build_index") /\ last.res.outcome = "ok") =>
        LET v == last.call.video_id
            objs == ChunkObjects(last.call.text, last.call.segments)
        IN  /\ Len(objs) >= 1
            /\ HasIndex(v)
            /\ GetIndexStatsCall(v) = Returned([chunk_count |-> Len(objs)])
            /\ GetChunksCall(v).outcome = "ok"
            /\ Len(GetChunksCall(v).value) = Len(objs)
            /\ \A i \in 1..Len(objs) :
                  /\ GetChunksCall(v).value[i].text = objs[i].text
                  /\ GetChunksCall(v).value[i].start_sec = objs[i].start
                  /\ GetChunksCall(v).value[i].end_sec = objs[i].end
                  /\ GetChunksCall(v).value[i].chunk_index = i - 1

\* a build from segments that produced at least two timed chunks
C1_Witness ==
    /\ IsCall("build_index")
    /\ last.res.outcome = "ok"
    /\ last.call.segments # <<>>
    /\ Len(GetChunksCall(last.call.video_id).value) >= 2
    /\ GetChunksCall(last.call.video_id).value[2].start_sec = Some(SegPeriod)

\* the positions (1-based) of the stored chunks whose [start, end] contains t
Containing(chunks, t) ==
    {i \in 1..Len(chunks) :
        /\ chunks[i].start # None /\ chunks[i].end # None
        /\ Val(chunks[i].start) <= t /\ t <= Val(chunks[i].end)}

SetMin(S) == CHOOSE x \in S : \A y \in S : x <= y

\* the run of chunks lo..hi (1-based) as retrieve_by_timestamp reports it
IsRun(result, chunks, lo, hi) ==
    /\ Len(result) = hi - lo + 1
    /\ \A j \in 1..Len(result) :
          /\ result[j].chunk_index = lo + j - 2
          /\ result[j].text = chunks[lo + j - 1].text
          /\ result[j].start_sec = chunks[lo + j - 1].start
          /\ result[j].end_sec = chunks[lo + j - 1].end
          /\ result[j].score = None

\* the general statement of C3
C3_General ==
    (/\ IsCall("retrieve_by_timestamp")
     /\ Readable(last.call.video_id)
     /\ Containing(StoredChunks(last.call.video_id), last.call.time_sec) # {}) =>
        LET chunks == StoredChunks(last.call.video_id)
            i == SetMin(Containing(chunks, last.call.time_sec))
            w == last.call.window
        IN  /\ last.res.outcome = "ok"
            /\ IsRun(last.res.value, chunks, Max(1, i - w), Min(Len(chunks), i + w))

Intervals(chunks) == [i \in 1..Len(chunks) |-> <<chunks[i].start, chunks[i].end>>]

\* chunks [0,10],[10,20],[20,30], t = 15, window 1: all three chunks, in order
C3_Witness ==
    /\ IsCall("retrieve_by_timestamp")
    /\ Readable(last.call.video_id)
    /\ Intervals(StoredChunks(last.call.video_id))
         = << <<Some(0), Some(10)>>, <<Some(10), Some(20)>>, <<Some(20), Some(30)>> >>
    /\ last.call.time_sec = 15
    /\ last.call.window = 1
    /\ [j \in 1..Len(last.res.value) |-> last.res.value[j].chunk_index] = <<0, 1, 2>>

\* the example of C3: chunks [0,10],[10,20],[20,30] and t = 15 give only [10,20]
\* with window 0 and all three chunks with window 1
C3_Example ==
    (/\ IsCall("retrieve_by_timestamp")
     /\ Readable(last.call.video_id)
     /\ Intervals(StoredChunks(last.call.video_id))
          = << <<Some(0), Some(10)>>, <<Some(10), Some(20)>>, <<Some(20), Some(30)>> >>
     /\ last.call.time_sec = 15) =>
        /\ last.call.window = 0 =>
              /\ Len(last.res.value) = 1
              /\ last.res.value[1].start_sec = Some(10)
              /\ last.res.value[1].end_sec = Some(20)
        /\ last.call.window = 1 =>
              [j \in 1..Len(last.res.value) |->
                  <<last.res.value[j].start_sec, last.res.value[j].end_sec>>]
                = << <<Some(0), Some(10)>>, <<Some(10), Some(20)>>, <<Some(20), Some(30)>> >>

\* C3: retrieve_by_timestamp with window w >= 0 and a time inside the interval
\* of at least one chunk returns the chunks max(0, i-w) .. min(n-1, i+w) in
\* ascending order with score null, i the lowest-indexed chunk containing t;
\* for chunks [0,10],[10,20],[20,30], t = 15 gives only [10,20] with w = 0 and
\* all three chunks with w = 1.
C3_TimestampWindow == C3_General /\ C3_Example

\* the positions of the chunks that have a start time
WithStart(chunks) == {i \in 1..Len(chunks) : chunks[i].start # None}

\* the lowest position among the chunks whose start is closest to t
ClosestStart(chunks, t) ==
    SetMin({i \in WithStart(chunks) :
               \A j \in WithStart(chunks) :
                   Abs(Val(chunks[i].start) - t) <= Abs(Val(chunks[j].start) - t)})

\* C4: when no chunk interval contains t and at least one chunk has a start
\* time, retrieve_by_timestamp anchors on the chunk whose start is closest to t
\* (lower index on a tie), and the result is never empty.
C4_NearestFallback ==
    (/\ IsCall("retrieve_by_timestamp")
     /\ Readable(last.call.video_id)
     /\ Containing(StoredChunks(last.call.video_id), last.call.time_sec) = {}
     /\ WithStart(StoredChunks(last.call.video_id)) # {}) =>
        LET chunks == StoredChunks(last.call.video_id)
            i == ClosestStart(chunks, last.call.time_sec)
            w == last.call.window
        IN  /\ last.res.outcome = "ok"
            /\ last.res.value # <<>>
            /\ IsRun(last.res.value, chunks, Max(1, i - w), Min(Len(chunks), i + w))

\* C5: for a document with n indexed chunks and top_k >= 1, retrieve returns
\* min(top_k, n) results, each a distinct chunk index in 0..n-1, by
\* non-increasing score; for a document with no index it returns [].
C5_SemanticSearchSize ==
    IsCall("retrieve") =>
        LET v == last.call.video_id
        IN  /\ ~HasIndex(v) => last.res = Returned(<<>>)
            /\ (Readable(v) /\ Len(Val(indexFile[v])) = Len(StoredChunks(v))) =>
                  LET n == Len(StoredChunks(v))
                      r == last.res.value
                  IN  /\ last.res.outcome = "ok"
                      /\ Len(r) = Min(last.call.top_k, n)
                      /\ \A a \in 1..Len(r) : r[a].chunk_index \in 0..(n - 1)
                      /\ \A a, b \in 1..Len(r) : a # b => r[a].chunk_index # r[b].chunk_index
                      /\ \A a \in 1..Len(r) : r[a].text = StoredChunks(v)[r[a].chunk_index + 1].text
                      /\ \A a \in 1..(Len(r) - 1) : Val(r[a].score) >= Val(r[a + 1].score)

\* top_k above the chunk count: all chunks come back, with different scores
C5_Witness ==
    /\ IsCall("retrieve")
    /\ Readable(last.call.video_id)
    /\ last.res.outcome = "ok"
    /\ Len(StoredChunks(last.call.video_id)) >= 2
    /\ last.call.top_k > Len(StoredChunks(last.call.video_id))
    /\ Len(last.res.value) = Len(StoredChunks(last.call.video_id))
    /\ last.res.value[1].score # last.res.value[Len(last.res.value)].score
    /\ last.res.value[1].chunk_index # 0

ReadOps == {"retrieve", "retrieve_by_timestamp", "get_index_stats", "get_chunks"}

\* C9: every read operation returns an empty result (chunk_count 0 for stats)
\* instead of raising when the index is missing or its metadata does not parse.
C9_ReadsNeverRaise ==
    (last.call.op \in ReadOps /\ ~Readable(last.call.video_id)) =>
        /\ last.res.outcome = "ok"
        /\ last.res.value = IF IsCall("get_index_stats") THEN [chunk_count |-> 0] ELSE <<>>

(***************************************************************************)
(* Claims about rag_indexer, checked under SpecIndexer.                    *)
(***************************************************************************)
\* the chunk records the shared store holds for video_id, in stored order
RecordsOf(video_id) == SelectSeq(LoadedMetadata, LAMBDA md : md.video_id = video_id)

Indexed == IsCall("index_transcript") /\ last.res.outcome = "ok"
           /\ "indexed" \in DOMAIN last.res.value

\* C2: a build replaces, never merges: after indexing content T2 for a
\* document_id the chunk records stored for that document are exactly the
\* chunks of T2, whatever was indexed for it before, with or without
\* force_reindex.
C2_BuildReplaces ==
    Indexed =>
        LET chunks == ChunkTranscript(last.call.text, ChunkTokenTarget, ChunkOverlap)
        IN  [i \in 1..Len(RecordsOf(last.call.video_id)) |->
                RecordsOf(last.call.video_id)[i].text]
              = [i \in 1..Len(chunks) |-> chunks[i].text]

(***************************************************************************)
(* Claims about llm_backend generate, checked under SpecGen.               *)
(***************************************************************************)
GenDone == genPc \in {"success", "failed"}
SignalledRateLimit(resp) == resp.kind = "error" /\ IsRateLimitSignal(resp.error)

\* A hosted call that failed either raised the exhaustion error, and then it
\* made six invocations that all signalled rate limiting, or raised the
\* provider's own error, which is not a rate-limit signal and is another
\* error than the exhaustion error; a call whose last invocation signalled
\* rate limiting ends in no other way; no call makes more than six invocations.
C6_Exhaustion ==
    /\ invocations <= 6
    /\ (genKind = "gemini" /\ genPc = "failed") =>
          IF genResult = Raised(ExceededRetries)
          THEN invocations = 6 /\ attempt = 6 /\ SignalledRateLimit(lastResp)
          ELSE /\ genResult = Raised(lastResp.error)
               /\ ~SignalledRateLimit(lastResp)
               /\ lastResp.error # ExceededRetries
    /\ (genKind = "gemini" /\ GenDone /\ SignalledRateLimit(lastResp)) =>
          genPc = "failed" /\ genResult = Raised(ExceededRetries)

\* C6: under persistent rate limiting one hosted generate call terminates
\* after exactly 6 provider invocations (1 initial + 5 retries) and fails with
\* the exhaustion error, which no other generation failure raises.
C6_RateLimitExhaustion ==
    /\ []C6_Exhaustion
    /\ (genPc \in {"sending", "ratelimited"}) ~> GenDone

C6_Witness ==
    /\ genKind = "gemini"
    /\ genPc = "failed"
    /\ invocations = 6
    /\ genResult = Raised(ExceededRetries)

Edges ==
    { <<"idle", "sending">>, <<"sending", "success">>, <<"sending", "ratelimited">>,
      <<"sending", "failed">>, <<"ratelimited", "sending">>,
      <<"success", "idle">>, <<"failed", "idle">> }

C7_Step ==
    /\ genPc' # genPc => <<genPc, genPc'>> \in Edges
    \* a second or later invocation follows a rate-limit signal on the hosted backend
    /\ (invocations' > invocations /\ invocations >= 1) =>
          genKind = "gemini" /\ SignalledRateLimit(lastResp)
    \* a rate-limit signal on the hosted backend is slept on, not raised
    /\ (invocations' > invocations /\ genKind = "gemini" /\ SignalledRateLimit(lastResp')) =>
          genPc' = "ratelimited" /\ lastSleep' >= BackoffTenths * Pow2(attempt)
    \* any other fault ends the call at once with that error
    /\ (invocations' > invocations /\ lastResp'.kind = "error"
            /\ ~(genKind = "gemini" /\ SignalledRateLimit(lastResp'))) =>
          genPc' = "failed" /\ genResult' = Raised(lastResp'.error)
    \* failed is terminal: the caller gets the error and nothing else happens
    /\ genPc = "failed" =>
          genPc' = "idle" /\ genResult' = genResult /\ invocations' = invocations

\* C7: only a rate-limit signal on the hosted backend leads to another
\* invocation; any other provider fault ends the call at once with that error;
\* the local backend invokes once; the call moves idle -> sending ->
\* {success, ratelimited -> sending, failed}, ratelimited is never reached on
\* the local backend and failed is left only by handing the error to the caller.
C7_RetryOnlyOnRateLimit ==
    /\ [](genPc = "ratelimited" => genKind = "gemini")
    /\ [](genKind = "ollama" => invocations <= 1)
    /\ [][C7_Step]_vars

C7_Witness ==
    /\ genKind = "gemini"
    /\ genPc = "failed"
    /\ invocations = 3
    /\ ~SignalledRateLimit(lastResp)
    /\ genResult = Raised(lastResp.error)

\* every result a finished generate call has is one chat_once reckons with
GenerateOutcomesCover == GenDone => genResult \in GenerateOutcomes(genKind)

(***************************************************************************)
(* Claims about backend selection and chat_once, checked under SpecChat.   *)
(***************************************************************************)
Usable(kind, env) == env[kind].construct /\ env[kind].available
Alternative(kind) == IF kind = "ollama" THEN "gemini" ELSE "ollama"

\* C8: auto_select_backend returns the preferred kind whenever that backend
\* can be constructed and is available, whatever the alternative's state; it
\* returns the alternative kind only when the preferred one cannot be
\* constructed or is unavailable; it raises the no-backend-available error
\* exactly when neither kind is constructible and available.
C8_FailoverOrder ==
    IsCall("auto_select_backend") =>
        LET preferred == last.call.preferred
            env == last.call.env
            res == last.res
        IN  /\ Usable(preferred, env) =>
                  res.outcome = "ok" /\ res.value.kind = preferred
            /\ (res.outcome = "ok" /\ res.value.kind # preferred) =>
                  /\ res.value.kind = Alternative(preferred)
                  /\ ~Usable(preferred, env)
                  /\ Usable(Alternative(preferred), env)
            /\ res.outcome = "raise" <=>
                  ~Usable(preferred, env) /\ ~Usable(Alternative(preferred), env)
            /\ res.outcome = "raise" => res.value = NoBackendAvailable

\* the preferred backend is constructed but reports itself unavailable, and
\* the alternative is returned
C8_Witness ==
    /\ IsCall("auto_select_backend")
    /\ last.call.env[last.call.preferred].construct
    /\ ~last.call.env[last.call.preferred].available
    /\ last.res.outcome = "ok"
    /\ last.res.value.kind = Alternative(last.call.preferred)

\* the text generation gave chat_once, <<>> when it gave none
GeneratedText(generated) ==
    IF ~IsNone(generated) /\ Val(generated).outcome = "ok" THEN Val(Val(generated).value)
    ELSE <<>>

C11_CitationsMirrorContext ==
    (IsCall("chat_once") /\ last.res.outcome = "ok") =>
        LET citations == last.res.value.citations
            shown == last.call.rag_chunks_text
            chunks == last.call.rag_results
        IN  /\ IsNone(citations) <=> last.call.context # "chunks"
            /\ IsNone(citations) <=> shown = <<>>
            /\ ~IsNone(citations) =>
                  /\ Len(Val(citations)) = Len(shown)
                  /\ \A i \in 1..Len(shown) :
                        /\ Val(citations)[i].chunk_id = <<"c", i>>
                        /\ Val(citations)[i].chunk_id = shown[i].label
                        /\ Val(citations)[i].text = shown[i].text
                        /\ Val(citations)[i].score = chunks[i].score
                        /\ Val(citations)[i].start_sec = chunks[i].start_sec
                        /\ Val(citations)[i].end_sec = chunks[i].end_sec
                        /\ Val(citations)[i].text =
                              StoredChunks("v1")[chunks[i].chunk_index + 1].text

\* a timestamp question answered from two context chunks
C11_Witness ==
    /\ IsCall("chat_once")
    /\ last.res.outcome = "ok"
    /\ last.call.context = "chunks"
    /\ Len(last.call.rag_chunks_text) = 2
    /\ Len(Val(last.res.value.citations)) = 2
    /\ IsNone(Val(last.res.value.citations)[1].score)

\* RAG is enabled for the request, the document has an index and the
\* retrieval returned at least one chunk without raising
RetrievalSucceeded ==
    /\ last.res.value.meta.use_rag
    /\ HasIndexKey(VidKey(last.call.video_id, last.call.youtube_url))
    /\ last.call.retrieved = "ok"
    /\ last.call.rag_results # <<>>

\* C24: the prompt of chat_once holds the numbered context-chunk block and
\* the strict-citation instruction exactly when RAG is enabled, the document
\* has an index and retrieval returned at least one chunk without error;
\* otherwise it holds the truncated-transcript block exactly when a
\* transcript text is available; otherwise no context; the two blocks never
\* appear together.
C24_ContextSelection ==
    (IsCall("chat_once") /\ last.res.outcome = "ok") =>
        LET prompt == last.call.prompt
            strict == "Answer STRICTLY using the provided context chunks; cite [cN].\n"
        IN  /\ prompt.context_chunks # <<>> <=> RetrievalSucceeded
            /\ prompt.system = strict <=> RetrievalSucceeded
            /\ RetrievalSucceeded =>
                  /\ Len(prompt.context_chunks) = Len(last.call.rag_results)
                  /\ \A i \in 1..Len(prompt.context_chunks) :
                        /\ prompt.context_chunks[i].label = <<"c", i>>
                        /\ prompt.context_chunks[i].text = last.call.rag_results[i].text
            /\ ~RetrievalSucceeded =>
                  /\ prompt.transcript # <<>> <=> last.call.transcript_text # <<>>
                  /\ prompt.transcript = last.call.transcript_text
                  /\ Len(prompt.transcript) <= TranscriptLimit
            /\ ~(prompt.context_chunks # <<>> /\ prompt.transcript # <<>>)

\* chunks were retrieved for a request whose transcript was fetched as well
C24_Witness ==
    /\ IsCall("chat_once")
    /\ last.res.outcome = "ok"
    /\ RetrievalSucceeded
    /\ last.call.transcript_text # <<>>
    /\ last.call.prompt.context_chunks # <<>>
    /\ last.call.prompt.transcript = <<>>

(***************************************************************************)
(* Claims about conversations, checked under SpecConv and SpecConvFaults.  *)
(***************************************************************************)
\* the message list a reader of the conversation file finds
StoredMessages(path) ==
    IF IsNone(convFile[path]) THEN <<>> ELSE Val(convFile[path]).data.messages

\* messages ends with the exchange (asked, answered)
EndsWithExchange(messages, asked, answered) ==
    /\ Len(messages) >= 2
    /\ messages[Len(messages) - 1] = Message("user", asked)
    /\ messages[Len(messages)] = Message("assistant", answered)

C12_ManagerChatPersists ==
    (IsCall("chat") /\ last.res.outcome = "ok") =>
        LET stored == StoredMessages(ConvPath(last.call.user_id, last.call.video_id))
        IN  /\ EndsWithExchange(stored, last.call.message, last.res.value)
            \* what comes before the exchange was there before the call
            /\ \E k \in 0..Len(last.call.before) :
                   SubSeq(stored, 1, Len(stored) - 2)
                       = SubSeq(last.call.before, k + 1, Len(last.call.before))

C12_ChatOncePersists ==
    (IsCall("chat_once") /\ last.res.outcome = "ok") =>
        EndsWithExchange(chatHistory[VidKey(last.call.video_id, last.call.youtube_url)],
                         MessageText(last.call.message), last.res.value.answer)

\* C12: every answer call that returns has appended to the conversation
\* exactly two messages, the user's message and then the assistant's answer,
\* also when the answer is a fallback; for ConversationManager.chat and for
\* chat_once.
C12_AnswerPersists == C12_ManagerChatPersists /\ C12_ChatOncePersists

\* C13: for every max_history >= 0, after any sequence of add_message calls
\* the stored list has at most 2 * max_history entries and is the most recent
\* entries of all appended messages, in append order.
C13_FifoEviction ==
    ~IsNone(manager) =>
        \A path \in ConvPaths :
            LET stored == StoredMessages(path)
                full == appended[path]
                keep == Min(Len(full), 2 * Val(manager).max_history)
            IN  /\ Len(stored) <= 2 * Val(manager).max_history
                /\ stored = SubSeq(full, Len(full) - keep + 1, Len(full))

\* the same for the managers built with max_history >= 1
C13_FifoEvictionPositive == (~IsNone(manager) /\ Val(manager).max_history = 0) \/ C13_FifoEviction

IsCutShort(path) == ~IsNone(convFile[path]) /\ Val(convFile[path]).kind \in CutKinds

\* C14: when the persisted record is corrupted, load_conversation returns a
\* conversation with an empty message list, and add_message and chat
\* complete without raising.
C14_CorruptionNotFatal ==
    /\ (IsCall("load_conversation")
            /\ IsCutShort(ConvPath(last.call.user_id, last.call.video_id))) =>
          last.res.outcome = "ok" /\ last.res.value.messages = <<>>
    /\ (IsCall("add_message") \/ IsCall("chat")) => last.res.outcome = "ok"

\* the same for files whose text was cut between characters
C14_TruncatedNotFatal ==
    /\ (IsCall("load_conversation")
            /\ IsCutShort(ConvPath(last.call.user_id, last.call.video_id))
            /\ Val(convFile[ConvPath(last.call.user_id, last.call.video_id)]).kind = "truncated") =>
          last.res.outcome = "ok" /\ last.res.value.messages = <<>>
    /\ (IsCall("add_message") \/ IsCall("chat")) =>
          \/ last.res.outcome = "ok"
          \/ Val(convFile[ConvPath(last.call.user_id, last.call.video_id)]).kind = "undecodable"

(***************************************************************************)
(* Claims about builds on several documents, checked under SpecDocs.       *)
(***************************************************************************)
\* the records and the vectors the shared store holds for video_id
SharedRecords(index, meta, video_id) ==
    IF IsNone(meta) THEN [records |-> <<>>, vectors |-> {}]
    ELSE LET metadata == JsonLoads(Val(meta))
             at == {i \in 1..Len(metadata) : metadata[i].video_id = video_id}
         IN  [records |-> SelectSeq(metadata, LAMBDA md : md.video_id = video_id),
              vectors |-> {<<i, Val(index)[i]>> : i \in at}]

IsBuildOf(call, video_id) ==
    call.op \in {"build_index", "index_transcript"} /\ call.video_id = video_id

\* build_index on A leaves the files of B alone
C15_BuildIndexIndependent ==
    [][\A a, b \in Videos :
          (a # b /\ last'.call.op = "build_index" /\ last'.call.video_id = a) =>
              indexFile'[b] = indexFile[b] /\ metaFile'[b] = metaFile[b]]_vars

\* C15: a build (build_index, index_transcript with or without
\* force_reindex) of document A never changes the chunk records or the
\* vectors stored for another document B.
C15_BuildsIndependent ==
    [][\A a, b \in Videos :
          (a # b /\ IsBuildOf(last'.call, a)) =>
              /\ indexFile'[b] = indexFile[b]
              /\ metaFile'[b] = metaFile[b]
              /\ SharedRecords(faissIndex', faissMeta', b)
                    = SharedRecords(faissIndex, faissMeta, b)]_vars

(***************************************************************************)
(* Claims about _parse_timestamp_seconds, checked under SpecRouter.        *)
(***************************************************************************)
Parsed == last.call.op = "_parse_timestamp_seconds"

\* the value of the first of the four patterns that matches the message
FirstMatch(message) ==
    LET runs == Runs(LowerText(message), 1)
        clock == Search([i \in 1..Len(runs) |-> ClockAt(runs, i)])
        compound == Search([i \in 1..Len(runs) |-> CompoundAt(runs, i)])
        minutes == Search([i \in 1..Len(runs) |-> MinutesAt(runs, i)])
        sec == Search([i \in 1..Len(runs) |-> SecAt(runs, i)])
        seconds == Search([i \in 1..Len(runs) |-> SecondsAt(runs, i)])
    IN  IF ~IsNone(clock) THEN Some(HmsSeconds(Val(clock)))
        ELSE IF ~IsNone(compound) THEN Some(HmsSeconds(Val(compound)))
        ELSE IF ~IsNone(minutes)
        THEN Some(Val(minutes) * 60 + (IF ~IsNone(sec) THEN Val(sec) ELSE 0))
        ELSE IF ~IsNone(seconds) THEN Some(Val(seconds))
        ELSE None

\* C16: _parse_timestamp_seconds returns the value of the first of the clock,
\* compound, minutes and seconds patterns that matches the message (so a
\* clock-style time wins over a unit-style time), and no timestamp when none
\* of them matches.
C16_PatternPriority ==
    Parsed => last.res = Returned(FirstMatch(last.call.message))

\* the clock pattern does win, and no match gives no timestamp
C16_ClockFirst ==
    Parsed =>
        LET runs == Runs(LowerText(last.call.message), 1)
            clock == Search([i \in 1..Len(runs) |-> ClockAt(runs, i)])
            compound == Search([i \in 1..Len(runs) |-> CompoundAt(runs, i)])
            minutes == Search([i \in 1..Len(runs) |-> MinutesAt(runs, i)])
            seconds == Search([i \in 1..Len(runs) |-> SecondsAt(runs, i)])
        IN  /\ ~IsNone(clock) => last.res = Returned(Some(HmsSeconds(Val(clock))))
            /\ (IsNone(clock) /\ IsNone(compound) /\ IsNone(minutes) /\ IsNone(seconds)) =>
                  last.res = Returned(None)

\* a compound unit expression of hours, minutes and seconds components
UnitPart(digits, unit) == IF IsNone(digits) THEN <<>> ELSE Val(digits) \o <<unit>>
PartValue(digits) == IF IsNone(digits) THEN 0 ELSE IntOf(Val(digits))

CompoundQueries ==
    { [text |-> UnitPart(h, "h") \o UnitPart(m, "m") \o UnitPart(s, "s"),
       value |-> 3600 * PartValue(h) + 60 * PartValue(m) + PartValue(s)] :
      h \in {None, Some(<<"1">>)}, m \in {None, Some(<<"4">>)},
      s \in {None, Some(<<"3", "2">>)} } \ {[text |-> <<>>, value |-> 0]}

\* C17: a message that is a compound unit expression made of any non-empty
\* subset of an hours, a minutes and a seconds component parses to
\* 3600*h + 60*m + s, absent components counting as 0.
C17_CompoundAnyCombination ==
    \A q \in CompoundQueries :
        (Parsed /\ last.call.message = q.text) => last.res = Returned(Some(q.value))

\* with a seconds component the expression parses as the claim says
C17_CompoundWithSeconds ==
    \A q \in CompoundQueries :
        (Parsed /\ last.call.message = q.text /\ q.text[Len(q.text)] = "s") =>
            last.res = Returned(Some(q.value))

(***************************************************************************)
(* Claims about chunk_transcript, checked under SpecChunker.               *)
(***************************************************************************)
Chunked == last.call.op = "chunk_transcript"
TargetOf(call) == IF call.target_tokens = 0 THEN ChunkTokenTarget ELSE call.target_tokens
SentenceTokens(sentences) ==
    SeqSum([i \in 1..Len(sentences) |-> ApproximateTokenCount(sentences[i])])

\* the sentences of the call fit together in its target size
FitsInTarget(call) ==
    /\ SplitIntoSentences(call.transcript) # <<>>
    /\ SentenceTokens(SplitIntoSentences(call.transcript)) <= TargetOf(call)

\* C18: a transcript whose sentences together fit in the target size yields
\* exactly one chunk, with chunk_id 1, whose text is all its sentences in
\* order joined by single spaces, surrounding whitespace trimmed.
C18_NoPrematureSplit ==
    (Chunked /\ FitsInTarget(last.call)) =>
        /\ Len(last.res.value) = 1
        /\ last.res.value[1].chunk_id = 1
        /\ last.res.value[1].text
              = Strip(JoinSpace(SplitIntoSentences(last.call.transcript)))

C18_Witness ==
    /\ Chunked /\ FitsInTarget(last.call)
    /\ Len(SplitIntoSentences(last.call.transcript)) = 3
    /\ SentenceTokens(SplitIntoSentences(last.call.transcript)) = TargetOf(last.call)
    /\ Len(last.res.value) = 1
    /\ last.res.value[1].text = JoinSpace(<<Sentence(1), Sentence(2), Sentence(3)>>)

OverlapOf(call) == IF call.overlap_tokens = 0 THEN ChunkOverlap ELSE call.overlap_tokens

\* the chunk is one sentence of the transcript, larger than the target
SingleLargeSentence(chunk, call) ==
    \E i \in 1..Len(SplitIntoSentences(call.transcript)) :
        LET sent == SplitIntoSentences(call.transcript)[i]
        IN  /\ chunk.text = Strip(sent)
            /\ chunk.token_estimate = ApproximateTokenCount(sent)
            /\ ApproximateTokenCount(sent) > TargetOf(call)

\* C25: every chunk chunk_transcript returns has token_estimate <=
\* target_tokens, except a chunk that is a single sentence whose own estimate
\* exceeds target_tokens, whatever the overlap.
C25_ChunksBounded ==
    Chunked =>
        \A i \in 1..Len(last.res.value) :
            \/ last.res.value[i].token_estimate <= TargetOf(last.call)
            \/ SingleLargeSentence(last.res.value[i], last.call)

\* a chunk exceeds the target by at most the overlap tail it was seeded
\* with: its estimate is within the target, or within the overlap budget
\* plus the estimate of one sentence
C25_BoundedUpToOverlap ==
    Chunked =>
        \A i \in 1..Len(last.res.value) :
            \/ last.res.value[i].token_estimate <= TargetOf(last.call)
            \/ \E j \in 1..Len(SplitIntoSentences(last.call.transcript)) :
                  last.res.value[i].token_estimate
                     <= OverlapOf(last.call)
                        + ApproximateTokenCount(SplitIntoSentences(last.call.transcript)[j])

\* the chunks are runs lo..hi of the sentences, one run per chunk in order:
\* the first starts at sentence 1 and the last ends at the last sentence;
\* every later chunk starts inside or right after the chunk before it, with
\* a tail of that chunk of at most budget tokens, and goes on with at least
\* one sentence the chunk before it did not hold; with a budget of 0 no
\* sentence is shared
OverlapSeeded(sentences, chunks, budget) ==
    LET n == Len(sentences)
        runs == {r \in (1..n) \X (1..n) : r[1] <= r[2]}
    IN  \E run \in [1..Len(chunks) -> runs] :
            /\ \A i \in 1..Len(chunks) :
                  /\ chunks[i].text = Strip(JoinSpace(SubSeq(sentences, run[i][1], run[i][2])))
                  /\ chunks[i].token_estimate
                        = SentenceTokens(SubSeq(sentences, run[i][1], run[i][2]))
            /\ (n = 0) <=> (chunks = <<>>)
            /\ chunks # <<>> => run[1][1] = 1 /\ run[Len(chunks)][2] = n
            /\ \A i \in 2..Len(chunks) :
                  /\ run[i - 1][1] <= run[i][1]
                  /\ run[i][1] <= run[i - 1][2] + 1
                  /\ SentenceTokens(SubSeq(sentences, run[i][1], run[i - 1][2])) <= budget
                  /\ run[i][2] > run[i - 1][2]
                  /\ budget = 0 => run[i][1] = run[i - 1][2] + 1

\* C26: every chunk after the first starts with a (possibly empty) run of
\* trailing sentences of the chunk just closed whose token estimate is within
\* the overlap budget the caller passed, followed by at least one new
\* sentence; with a budget of 0 adjacent chunks share no sentence; every
\* sentence is in some chunk and the order of the sentences is kept.
C26_OverlapWithinPassedBudget ==
    Chunked =>
        OverlapSeeded(SplitIntoSentences(last.call.transcript), last.res.value,
                      last.call.overlap_tokens)

\* the same with the budget the loop runs with, which is the setting
\* CHUNK_OVERLAP when the caller passed 0
C26_OverlapWithinEffectiveBudget ==
    Chunked =>
        OverlapSeeded(SplitIntoSentences(last.call.transcript), last.res.value,
                      OverlapOf(last.call))

(***************************************************************************)
(* Claims about _chunk_segments, checked under SpecSegments.               *)
(***************************************************************************)
SegmentsChunked == last.call.op = "_chunk_segments"

\* the segments whose text is not empty once stripped, in input order
KeptSegments(segments) == SelectSeq(segments, LAMBDA seg : Strip(seg.text) # <<>>)

StrippedTexts(segments) == [i \in 1..Len(segments) |-> Strip(segments[i].text)]

\* the chunks are the kept segments cut into consecutive runs, one run per
\* chunk: no segment is left out or taken twice, a chunk starts where its
\* first segment starts and ends where its last segment ends, and a segment
\* longer than the budget is alone in its chunk
ChunksPartition(kept, chunks, chunk_chars) ==
    LET n == Len(kept)
        runs == {r \in (1..n) \X (1..n) : r[1] <= r[2]}
    IN  \E run \in [1..Len(chunks) -> runs] :
            /\ (n = 0) <=> (chunks = <<>>)
            /\ chunks # <<>> => run[1][1] = 1 /\ run[Len(chunks)][2] = n
            /\ \A i \in 2..Len(chunks) : run[i][1] = run[i - 1][2] + 1
            /\ \A i \in 1..Len(chunks) :
                  /\ chunks[i].text
                        = JoinSpace(StrippedTexts(SubSeq(kept, run[i][1], run[i][2])))
                  /\ chunks[i].start = Some(kept[run[i][1]].start)
                  /\ chunks[i].end = Some(kept[run[i][2]].start + kept[run[i][2]].duration)
                  /\ \A k \in run[i][1]..run[i][2] :
                        Len(Strip(kept[k].text)) > chunk_chars => run[i][1] = run[i][2]

\* C27: _chunk_segments puts the text of every segment with non-empty text
\* into exactly one chunk, in input order; a chunk's start is the start of
\* its first segment and its end the start + duration of its last; a
\* segment longer than the character budget is a chunk of its own.
C27_SegmentsPartitioned ==
    SegmentsChunked =>
        ChunksPartition(KeptSegments(last.call.segments), last.res.value,
                        last.call.chunk_chars)

\* a short segment, a blank one and one longer than the budget
C27_Witness ==
    /\ SegmentsChunked
    /\ Len(last.call.segments) = 3
    /\ Len(KeptSegments(last.call.segments)) = 2
    /\ Len(last.res.value) = 2
    /\ Len(last.res.value[2].text) > last.call.chunk_chars
    /\ last.res.value[2].start = Some(2 * SegPeriod)

\* C28: for segments with non-decreasing starts and non-negative durations,
\* every chunk of _chunk_segments has start <= end and the end of a chunk is
\* <= the start of the chunk after it.
C28_ChunksDisjointInTime ==
    (/\ SegmentsChunked
     /\ \A i \in 1..Len(last.call.segments) : last.call.segments[i].duration >= 0
     /\ \A i \in 2..Len(last.call.segments) :
           last.call.segments[i - 1].start <= last.call.segments[i].start) =>
        /\ \A i \in 1..Len(last.res.value) :
              Val(last.res.value[i].start) <= Val(last.res.value[i].end)
        /\ \A i \in 2..Len(last.res.value) :
              Val(last.res.value[i - 1].end) <= Val(last.res.value[i].start)

\* every chunk has start <= end and the chunks start in order; where no
\* segment lasts beyond the start of the next one, they do not overlap
C28_ChunksOrderedInTime ==
    SegmentsChunked =>
        /\ \A i \in 1..Len(last.res.value) :
              Val(last.res.value[i].start) <= Val(last.res.value[i].end)
        /\ \A i \in 2..Len(last.res.value) :
              Val(last.res.value[i - 1].start) <= Val(last.res.value[i].start)
        /\ (\A i \in 2..Len(last.call.segments) :
                last.call.segments[i - 1].start + last.call.segments[i - 1].duration
                   <= last.call.segments[i].start) =>
              \A i \in 2..Len(last.res.value) :
                  Val(last.res.value[i - 1].end) <= Val(last.res.value[i].start)

(***************************************************************************)
(* Claims about the chat session, checked under SpecSession.               *)
(***************************************************************************)
SessionPath == ConvPath("u1", "v1")

\* clear_conversation has just run: the history is empty
ClearedHistory ==
    IsCall("clear_conversation") => LoadOf(convFile[SessionPath]).value.messages = <<>>

\* C29: after set_transcript(user, video, T), any number of chat calls and
\* a clear_conversation, the message history is empty and a later chat
\* without a transcript argument still builds its prompt from T.
C29_ClearKeepsTranscript ==
    /\ ClearedHistory
    /\ (IsCall("chat") /\ ~IsNone(session) /\ last.res.outcome = "ok") =>
          last.call.prompt_transcript = PromptTranscript(Val(session).transcript)

\* the history is empty after a clear, and a chat builds its prompt from T
\* as long as the session has not cleared the conversation; after a clear
\* the prompt has no transcript
C29_TranscriptUntilClear ==
    /\ ClearedHistory
    /\ (IsCall("chat") /\ ~IsNone(session) /\ last.res.outcome = "ok") =>
          last.call.prompt_transcript =
              IF Val(session).cleared THEN <<>>
              ELSE PromptTranscript(Val(session).transcript)

(***************************************************************************)
(* Claims about process_report, checked under SpecReports.                 *)
(***************************************************************************)
\* the statuses a run has set so far are a prefix of running -> succeeded
\* or of running -> failed
StatusLifecycle(r) ==
    reportRuns[r].statuses \in {<<>>, <<"running">>, <<"running", "succeeded">>,
                          <<"running", "failed">>}

\* a run that has ended after setting 'running' has left a final status
NotLeftRunning(r) ==
    (reportRuns[r].pc = "done" /\ reportRuns[r].statuses # <<>>) =>
        /\ Len(reportRuns[r].statuses) = 2
        /\ reports[r].status \in {"succeeded", "failed"}
        /\ reports[r].status = reportRuns[r].statuses[2]

\* a run in which nothing but the index build (or the segment fetch) raised
\* does not end in 'failed'
IndexFailureTolerated(r) ==
    (reportRuns[r].pc = "done" /\ reportRuns[r].statuses # <<>> /\ reportRuns[r].raised \subseteq Tolerated) =>
        reports[r].status = "succeeded"

BuildEnded(l) == l.call.op = "build_index" /\ l.res # Raised("Interrupted")

\* the content is empty, whitespace only or only segments with empty text
EmptyContent(call) ==
    IF call.segments # <<>>
    THEN \A i \in 1..Len(call.segments) : Strip(call.segments[i].text) = <<>>
    ELSE Strip(call.text) = <<>>

\* C19: build_index on empty content (empty or whitespace-only text, or only
\* segments with empty text) has zero chunks, raises an error, and writes
\* neither the index file nor the metadata file: an index built before is
\* unchanged.
C19_EmptyContentFails ==
    [][(BuildEnded(last') /\ EmptyContent(last'.call)) =>
          /\ ChunkObjects(last'.call.text, last'.call.segments) = <<>>
          /\ last'.res = Raised("ValueError")
          /\ indexFile' = indexFile
          /\ metaFile' = metaFile]_vars

C19_Witness ==
    /\ BuildEnded(last) /\ EmptyContent(last.call)
    /\ last.call.segments = EmptySegments
    /\ last.res = Raised("ValueError")
    /\ HasIndex(last.call.video_id)

(***************************************************************************)
(* Claims about repeated index_transcript calls, checked under             *)
(* SpecIndexer.                                                            *)
(***************************************************************************)
SkippedAsIndexed == Returned([skipped |-> TRUE, reason |-> "already indexed"])
RagDisabled == Returned([skipped |-> TRUE, reason |-> "RAG disabled"])

\* the call of l indexed its transcript or found it indexed
IndexedBy(l) ==
    /\ l.call.op = "index_transcript"
    /\ l.res.outcome = "ok"
    /\ l.res # RagDisabled

\* C20: index_transcript called again with the same video_id and the same
\* transcript text and force_reindex = false returns a skipped result and
\* leaves the persisted vectors and chunk records unchanged.
C20_IdempotentIndexing ==
    [][(/\ IndexedBy(last)
        /\ last'.call = [last.call EXCEPT !.force_reindex = FALSE]
        /\ last'.res # RagDisabled) =>
          /\ last'.res = SkippedAsIndexed
          /\ faissIndex' = faissIndex
          /\ faissMeta' = faissMeta]_vars

C20_Witness ==
    /\ last.call.op = "index_transcript"
    /\ ~last.call.force_reindex
    /\ last.res = SkippedAsIndexed
    /\ Len(LoadedMetadata) >= 2
    /\ Len(RecordsOf(last.call.video_id)) = 1

(***************************************************************************)
(* Claims about the index / metadata pair, checked under SpecWrites.       *)
(***************************************************************************)
\* the vectors of the index file are those of the chunk records, in order
PairConsistent(video_id) ==
    /\ JsonParses(Val(metaFile[video_id]))
    /\ LET index == Val(indexFile[video_id])
           chunks == JsonLoads(Val(metaFile[video_id])).chunks
       IN  /\ Len(index) = Len(chunks)
           /\ \A i \in 1..Len(chunks) : index[i] = Normalize(Encode(chunks[i].text))

\* C21: in every state a reader can observe, between the two file writes of a
\* build included, whenever has_index(document_id) holds the index has as
\* many vectors as the metadata has chunk records and vector i was computed
\* from chunk record i.
C21_PairConsistency ==
    \A v \in StoreVideos : HasIndex(v) => PairConsistent(v)

\* a first build stopped between the writes is seen as no index, and a build
\* that ran to its end leaves a consistent pair
C21_FirstBuildAndFullBuild ==
    /\ [][\A v \in StoreVideos :
            (IsNone(metaFile[v]) /\ last'.res = Raised("Interrupted")) => ~HasIndex(v)']_vars
    /\ [](\A v \in StoreVideos :
            (last.call.op = "build_index" /\ last.res = Returned(None)) => PairConsistent(v))

(***************************************************************************)
(* Claims about concurrent chat calls, checked under SpecThreads.          *)
(***************************************************************************)
BothReturned == \A t \in Threads : chatThreads[t].pc = "done"
ThreadMessages == StoredMessages(ConvPath(ThreadUser, ThreadVideo))
PositionsOf(messages, message) == {i \in 1..Len(messages) : messages[i] = message}

\* in the stored history the user message of a thread comes before its answer
UserBeforeAnswer(messages) ==
    \A t \in Threads :
        \A i \in PositionsOf(messages, Message("user", AskedBy(t))),
           j \in PositionsOf(messages, Message("assistant", AnswerTo(t))) : i < j

\* C22: once two concurrent chat calls for the same conversation have both
\* returned, the stored history holds all four messages (the most recent
\* 2 * max_history of them after eviction), and in each exchange the user
\* message precedes its answer.
C22_NoAppendLost ==
    (BothReturned /\ Val(manager).max_history >= 1) =>
        /\ Len(ThreadMessages) = Min(4, 2 * Val(manager).max_history)
        /\ \A i, j \in 1..Len(ThreadMessages) : i # j => ThreadMessages[i] # ThreadMessages[j]
        /\ UserBeforeAnswer(ThreadMessages)

\* the order of an exchange is kept, also when appends are lost
C22_UserBeforeAnswer == ~IsNone(manager) => UserBeforeAnswer(ThreadMessages)

(***************************************************************************)
(* Claims about the embedding model accessor, checked under SpecModel.     *)
(***************************************************************************)
\* the instances the callers have received
Received == {modelThreads[t].got : t \in ModelThreads} \ {None}

\* C23: for any number of threads calling the model accessor, several first
\* callers at once included, the model constructor runs at most once and
\* every caller receives the same instance.
C23_SingletonOnce ==
    /\ constructed <= 1
    /\ Cardinality(Received) <= 1

\* a thread that has made the model never makes it again: the constructor
\* runs at most once per thread, and a caller never receives nothing
C23_OncePerThread ==
    /\ constructed <= Cardinality(ModelThreads)
    /\ \A t \in ModelThreads :
          (modelThreads[t].calls > 0 /\ modelThreads[t].pc = "idle") =>
              ~IsNone(modelThreads[t].got)

=============================================================================
